---- MODULE Spec2Model ----
(***************************************************************************)
(* Credential and session-token lifecycle of fitsync-user-service:         *)
(* authController (register / login / refresh / logout), the refresh-token *)
(* and user-cache helpers of utils/jwt, and userController (getMe,         *)
(* updateMe, updateUserRole, deleteUser).                                  *)
(*                                                                         *)
(* Every request is a process of its own; each action is one synchronous   *)
(* segment of a handler together with the one durable-store or cache call  *)
(* it awaits, so every await of the source is an interleaving point.  Each *)
(* awaited call may also throw (ok = FALSE), which takes the handler to    *)
(* its catch block.  A request keeps its inputs, its locals and its        *)
(* response once it is over.                                               *)
(*                                                                         *)
(* Time: the clock moves in steps of the two token lifetimes (15 minutes,  *)
(* 7 days).  In Spec it moves between requests, a handler running for      *)
(* milliseconds; in SpecRace it also moves while handlers are in flight,   *)
(* so that two requests of one user overlap and still sign at different    *)
(* seconds.  SpecAdmin starts from one registered administrator and adds   *)
(* the requests of userController.                                         *)
(***************************************************************************)
EXTENDS Integers, Sequences, FiniteSets, TLC

VARIABLES
    users,          \* durable store, table users: sequence of rows, id = index
    sessions,       \* durable store, table sessions: sequence of rows
    refreshStore,   \* cache: keys refresh_token:{userId}:{hash} -> value, expiry
    userCache,      \* cache: keys user:{userId} -> value, expiry
    req,            \* the requests: inputs, handler position, locals, response
    now,            \* wall clock, in seconds
    ticks           \* number of clock advances so far

vars == <<users, sessions, refreshStore, userCache, req, now, ticks>>

-----------------------------------------------------------------------------
(* Bounds of the model *)

MaxRequests == 3
MaxInFlight == 2
MaxFaults == 1
MaxTicks == 1

Requests == 1..MaxRequests
EmailSeq == <<"a@x.com", "b@x.com">>
Emails == {EmailSeq[i] : i \in DOMAIN EmailSeq}
Passwords == {"Passw0rd!", "Wr0ngPass!"}
RegisterPasswords == {"Passw0rd!"}
Roles == {"admin", "client"}
FirstNames == {"Ann", "Bob"}
RegisterNames == {"Ann"}

-----------------------------------------------------------------------------
(* Program constants *)

JWT_EXPIRY == 900
JWT_REFRESH_EXPIRY == 604800
REFRESH_TTL == 604800
USER_CACHE_TTL == 900
EXPIRES_IN == 900

TickSteps == {JWT_EXPIRY, REFRESH_TTL}

-----------------------------------------------------------------------------
(* Values *)

NoToken == [key |-> "none", id |-> 0, type |-> "", email |-> "", role |-> "",
            iat |-> 0, exp |-> 0]

NoUser == [id |-> 0, email |-> "", password_hash |-> <<"bcrypt", "">>,
           role |-> "", first_name |-> "", is_active |-> FALSE]

\* bcrypt.hash(password, 10): a one-way image of the password
bcryptHash(password) == <<"bcrypt", password>>

\* bcrypt.compare(password, hash)
bcryptCompare(password, hash) == hash = bcryptHash(password)

\* jwt.sign(payload, JWT_SECRET, {expiresIn: JWT_EXPIRY, ...}) at time t.
\* key stands for the secret the signature was made with.
generateAccessToken(user, t) ==
    [key |-> "access", id |-> user.id, type |-> "", email |-> user.email,
     role |-> user.role, iat |-> t, exp |-> t + JWT_EXPIRY]

\* jwt.sign({id, type: 'refresh'}, JWT_REFRESH_SECRET, {expiresIn: JWT_REFRESH_EXPIRY, ...})
generateRefreshToken(user, t) ==
    [key |-> "refresh", id |-> user.id, type |-> "refresh", email |-> "",
     role |-> "", iat |-> t, exp |-> t + JWT_REFRESH_EXPIRY]

\* crypto.createHash('sha256').update(token).digest('hex')
generateTokenHash(token) == <<"sha256", token>>

\* jwt.verify(token, JWT_SECRET, ...) does not throw at time t
verifyAccessToken(token, t) == token.key = "access" /\ t < token.exp

\* a verifier that takes a signature made with either secret
verifyRefreshToken_AnySecret(token, t) ==
    token.key \in {"access", "refresh"} /\ t < token.exp

\* jwt.verify(token, JWT_REFRESH_SECRET, ...) does not throw at time t
verifyRefreshToken(token, t) == token.key = "refresh" /\ t < token.exp

\* A token string whose signature does not verify under either secret
Tamper(token) == [token EXCEPT !.key = "forged"]

\* Token strings signed with the access secret for another issuer / audience
WrongIssuer(token) == [token EXCEPT !.key = "access:issuer"]
WrongAudience(token) == [token EXCEPT !.key = "access:audience"]

\* jwt.verify(token, secret, {issuer, audience}) at time t: "ok", or the
\* error it throws.  jsonwebtoken checks the shape, the signature, exp (expired
\* from the instant exp on), then audience and issuer.
jwtVerify(token, secret, t) ==
    IF token.key = "none" THEN "JsonWebTokenError: jwt malformed"
    ELSE IF token.key \notin {secret, secret \o ":issuer", secret \o ":audience"}
         THEN "JsonWebTokenError: invalid signature"
    ELSE IF t >= token.exp THEN "TokenExpiredError: jwt expired"
    ELSE IF token.key = secret \o ":audience"
         THEN "JsonWebTokenError: jwt audience invalid"
    ELSE IF token.key = secret \o ":issuer"
         THEN "JsonWebTokenError: jwt issuer invalid"
    ELSE "ok"

\* a verifier that rethrows the error of jwt.verify
verifyAccessTokenError_Leaky(token, t) == jwtVerify(token, "access", t)

\* verifyAccessToken(token): "ok", or the message of the error it throws
verifyAccessTokenError(token, t) ==
    IF jwtVerify(token, "access", t) = "ok" THEN "ok"
    ELSE "Invalid or expired access token"

-----------------------------------------------------------------------------
(* Cache operations on the refresh-token keyspace *)

RefreshKey(userId, token) == <<userId, generateTokenHash(token)>>

\* redisClient.setEx(key, ttl, value) at time t
SetEx(store, key, ttl, value, t) ==
    {r \in store : r.key # key} \cup {[key |-> key, value |-> value, exp |-> t + ttl]}

\* redisClient.get(key): the value, or NoToken for null
Get(store, key) ==
    IF \E r \in store : r.key = key
    THEN (CHOOSE r \in store : r.key = key).value
    ELSE NoToken

\* redisClient.del(keys)
Del(store, keys) == {r \in store : r.key \notin keys}

\* a scan whose pattern matches the keys of every user
Keys_AnyUser(store, userId) == {r.key : r \in store}

\* redisClient.keys(`refresh_token:${userId}:*`)
Keys(store, userId) == {r.key : r \in {x \in store : x.key[1] = userId}}

\* what the cache holds once the keys that expired by time t are gone
Expire(store, t) == {r \in store : t < r.exp}

\* a write that keeps the record for the access token's lifetime only
storeRefreshToken_ShortTtl(store, userId, token, ttl, t) ==
    SetEx(store, RefreshKey(userId, token), JWT_EXPIRY, token, t)

storeRefreshToken(store, userId, token, ttl, t) ==
    SetEx(store, RefreshKey(userId, token), ttl, token, t)

\* a revocation that deletes nothing
revokeRefreshToken_Noop(store, userId, token) == store

revokeRefreshToken(store, userId, token) ==
    Del(store, {RefreshKey(userId, token)})

\* a check that trusts the signature and never reads the cache
isRefreshTokenValid_SignatureOnly(store, userId, token) == token.key = "refresh"

isRefreshTokenValid(store, userId, token) ==
    Get(store, RefreshKey(userId, token)) = token

-----------------------------------------------------------------------------
(* Requests *)

\* no user object in the response
NoData == [id |-> 0, email |-> "", role |-> "", first_name |-> ""]

Idle == [kind |-> "none", pc |-> "idle",
         email |-> "", password |-> "", role |-> "", first_name |-> "",
         token |-> NoToken, auth |-> NoToken, all_devices |-> FALSE, target |-> 0,
         rows |-> -1, user |-> NoUser,
         accessToken |-> NoToken, refreshToken |-> NoToken,
         isValid |-> "unset", storedToken |-> NoToken, keys |-> {},
         fault |-> FALSE,
         cached |-> NoToken, data |-> NoData,
         client |-> "none", releases |-> 0, unhandled |-> FALSE,
         header |-> "", reqUser |-> NoToken, next |-> 0, error |-> "",
         body |-> {}, validatedBody |-> {},
         status |-> 0, code |-> "", message |-> "", data_user |-> NoData,
         access_token |-> NoToken, refresh_token |-> NoToken,
         expires_in |-> 0, token_type |-> ""]

\* res.status(status).json({... error: {code} ...}): the handler is over
Reject(r, status, code, message) ==
    [r EXCEPT !.pc = "done", !.status = status, !.code = code, !.message = message]

\* the body of a register / login response: data.user and data.tokens
RespondTokens(r, status) ==
    [r EXCEPT !.pc = "done", !.status = status, !.code = "OK",
              !.data_user = [id |-> r.user.id, email |-> r.user.email,
                             role |-> r.user.role,
                             first_name |-> r.user.first_name],
              !.access_token = r.accessToken, !.refresh_token = r.refreshToken,
              !.token_type = "Bearer", !.expires_in = EXPIRES_IN]

\* the handler's catch block: res.status(500).json({... error: {code} ...})
Catch(r, code, message) == [Reject(r, 500, code, message) EXCEPT !.fault = TRUE]

\* a finally block that forgets the client
Finally_Leak(r) == r

\* the finally block of register and login: client.release()
Finally(r) == [r EXCEPT !.client = "released", !.releases = @ + 1]

\* an await outside the handler's try block rejects: the handler's promise
\* rejects and the handler sends no response
Unhandled(r) == [r EXCEPT !.pc = "done", !.fault = TRUE, !.unhandled = TRUE]

\* an authenticate that hands whatever the header holds to the verifier
authenticate_AnyScheme(r, authHeader, t) ==
    LET token == authHeader.token
        h == [r EXCEPT !.header = authHeader.scheme]
    IN  IF ~verifyAccessToken(token, t)
        THEN Reject([h EXCEPT !.auth = token], 401, "INVALID_TOKEN",
                    "Invalid or expired token")
        ELSE [h EXCEPT !.auth = token, !.reqUser = token, !.next = @ + 1]

\* authenticate(req, res, next): req.headers.authorization is either absent
\* ("absent"), a string that does not start with 'Bearer ' ("Basic"), or
\* 'Bearer ' followed by a token
authenticate(r, authHeader, t) ==
    LET token == authHeader.token
        h == [r EXCEPT !.header = authHeader.scheme]
    IN  IF authHeader.scheme # "Bearer"
        THEN Reject(h, 401, "UNAUTHORIZED", "No token provided")
        ELSE IF ~verifyAccessToken(token, t)
        THEN Reject([h EXCEPT !.auth = token], 401, "INVALID_TOKEN",
                    "Invalid or expired token")
        ELSE [h EXCEPT !.auth = token, !.reqUser = token, !.next = @ + 1]

\* an authorize that lets every authenticated caller through
authorize_AnyAuthenticated(r, allowedRoles) ==
    IF r.reqUser = NoToken
    THEN Reject(r, 401, "UNAUTHORIZED", "Authentication required")
    ELSE [r EXCEPT !.next = @ + 1]

\* authorize(...allowedRoles)(req, res, next)
authorize(r, allowedRoles) ==
    IF r.reqUser = NoToken
    THEN Reject(r, 401, "UNAUTHORIZED", "Authentication required")
    ELSE IF r.reqUser.role \notin allowedRoles
    THEN Reject(r, 403, "FORBIDDEN", "Insufficient permissions")
    ELSE [r EXCEPT !.next = @ + 1]

InFlight == {p \in Requests : req[p].pc \notin {"idle", "done"}}

\* requests are numbered in the order they arrive
CanStart(p) ==
    /\ req[p].pc = "idle"
    /\ IF p = 1 THEN TRUE ELSE req[p - 1].pc # "idle"
    /\ Cardinality(InFlight) < MaxInFlight

\* an awaited call may throw while the model's budget of faults lasts
Faults == Cardinality({p \in Requests : req[p].fault})

Outcomes == IF Faults < MaxFaults THEN {TRUE, FALSE} ELSE {TRUE}

\* the token strings clients hold: those of the successful responses
Issued ==
    {req[p].access_token : p \in {q \in Requests : req[q].access_token # NoToken}}
    \cup {req[p].refresh_token : p \in {q \in Requests : req[q].refresh_token # NoToken}}

\* The emails are interchangeable: a request names an email some earlier
\* request named, or the first one that none has.
UsedEmails == {req[p].email : p \in Requests} \ {""}

EmailInputs ==
    LET fresh == {i \in DOMAIN EmailSeq : EmailSeq[i] \notin UsedEmails}
    IN  UsedEmails \cup
        {EmailSeq[i] : i \in {j \in fresh : \A k \in fresh : j <= k}}

IssuedRefresh == {t \in Issued : t.key = "refresh"}

\* the Authorization headers a client sends: none, one of another scheme, or
\* 'Bearer ' with a token the service issued
AuthHeaders ==
    {[scheme |-> s, token |-> NoToken] : s \in {"absent", "Basic"}}
    \cup {[scheme |-> "Bearer", token |-> t] : t \in Issued}

\* the strings a client can present as a refresh token
Presentable == Issued \cup {Tamper(t) : t \in IssuedRefresh}

UserIds == 1..Len(users)

RowByEmail(email) == {i \in UserIds : users[i].email = email}

\* the row as the SELECT of login returns it
UserRow(i) ==
    [id |-> i, email |-> users[i].email, password_hash |-> users[i].password_hash,
     role |-> users[i].role, first_name |-> users[i].first_name,
     is_active |-> users[i].is_active]

Init ==
    /\ users = <<>>
    /\ sessions = <<>>
    /\ refreshStore = {}
    /\ userCache = {}
    /\ req = [p \in Requests |-> Idle]
    /\ now = 0
    /\ ticks = 0

-----------------------------------------------------------------------------
(* The clock *)

\* the clock advances, and the cache drops the keys whose ttl has elapsed
TickAny ==
    /\ ticks < MaxTicks
    /\ \E d \in TickSteps :
        /\ now' = now + d
        /\ refreshStore' = Expire(refreshStore, now + d)
        /\ userCache' = Expire(userCache, now + d)
    /\ ticks' = ticks + 1
    /\ UNCHANGED <<users, sessions, req>>

\* the clock advances between requests
Tick == InFlight = {} /\ TickAny

-----------------------------------------------------------------------------
(* register *)

\* the session row of INSERT INTO sessions (...)
SessionRow(userId, token, t) ==
    [user_id |-> userId, refresh_token |-> token,
     token_hash |-> generateTokenHash(token),
     expires_at |-> t + REFRESH_TTL, revoked_at |-> -1]

\* the request arrives; const client = await db.pool.connect(), outside the
\* try block
RegisterConnect(p, email, password, role, first_name, ok) ==
    LET a == [req[p] EXCEPT !.kind = "register", !.email = email,
                            !.password = password, !.role = role,
                            !.first_name = first_name]
    IN  /\ CanStart(p)
        /\ req' = [req EXCEPT ![p] =
              IF ok THEN [a EXCEPT !.pc = "register_select", !.client = "held"]
              ELSE Unhandled(a)]
        /\ UNCHANGED <<users, sessions, refreshStore, userCache, now, ticks>>

\* a register that goes on to the insert whatever the existence check found
RegisterSelect_NoCheck(p, ok) ==
    LET a == req[p]
        r == [a EXCEPT !.rows = Cardinality(RowByEmail(a.email))]
    IN  /\ a.pc = "register_select"
        /\ req' = [req EXCEPT ![p] =
              IF ~ok THEN Finally(Catch(a, "REGISTRATION_FAILED", "Failed to register user"))
              ELSE [r EXCEPT !.pc = "register_insert"]]
        /\ UNCHANGED <<users, sessions, refreshStore, userCache, now, ticks>>

\* SELECT id FROM users WHERE email = $1
RegisterSelect(p, ok) ==
    LET a == req[p]
        r == [a EXCEPT !.rows = Cardinality(RowByEmail(a.email))]
    IN  /\ a.pc = "register_select"
        /\ req' = [req EXCEPT ![p] =
              IF ~ok THEN Finally(Catch(a, "REGISTRATION_FAILED", "Failed to register user"))
              ELSE IF r.rows > 0
                   THEN Finally(Reject(r, 409, "USER_EXISTS",
                               "User with this email already exists"))
              ELSE [r EXCEPT !.pc = "register_insert"]]
        /\ UNCHANGED <<users, sessions, refreshStore, userCache, now, ticks>>

\* bcrypt.hash, INSERT INTO users ... RETURNING, then the two tokens are signed.
\* The column email is UNIQUE: the insert throws when a row with it exists,
\* and the catch block logs that error (unique_violation) like any other.
RegisterInsert(p, ok) ==
    LET r == req[p]
        id == Len(users) + 1
        row == [email |-> r.email, password_hash |-> bcryptHash(r.password),
                role |-> r.role, first_name |-> r.first_name,
                is_active |-> TRUE, last_login |-> -1]
        user == [id |-> id, email |-> r.email, password_hash |-> row.password_hash,
                 role |-> r.role, first_name |-> r.first_name, is_active |-> TRUE]
    IN  /\ r.pc = "register_insert"
        /\ IF ok /\ RowByEmail(r.email) = {}
           THEN /\ users' = Append(users, row)
                /\ req' = [req EXCEPT ![p] =
                      [r EXCEPT !.pc = "register_store", !.user = user,
                                !.accessToken = generateAccessToken(user, now),
                                !.refreshToken = generateRefreshToken(user, now)]]
           ELSE /\ users' = users
                /\ req' = [req EXCEPT ![p] =
                      Finally(Catch([r EXCEPT !.error = IF ok THEN "unique_violation"
                                                        ELSE @],
                                    "REGISTRATION_FAILED", "Failed to register user"))]
        /\ UNCHANGED <<sessions, refreshStore, userCache, now, ticks>>

\* a register that undoes its user insert when the cache write fails
RegisterStore_Rollback(p, ok) ==
    LET r == req[p]
    IN  /\ r.pc = "register_store"
        /\ IF ok
           THEN /\ refreshStore' = storeRefreshToken(refreshStore, r.user.id,
                                                     r.refreshToken, REFRESH_TTL, now)
                /\ req' = [req EXCEPT ![p].pc = "register_session"]
                /\ users' = users
           ELSE /\ refreshStore' = refreshStore
                /\ req' = [req EXCEPT ![p] = Finally(Catch(r, "REGISTRATION_FAILED", "Failed to register user"))]
                /\ users' = SelectSeq(users, LAMBDA u : u.email # r.email)
        /\ UNCHANGED <<sessions, userCache, now, ticks>>

\* await storeRefreshToken(user.id, refreshToken, 604800)
RegisterStore(p, ok) ==
    LET r == req[p]
    IN  /\ r.pc = "register_store"
        /\ IF ok
           THEN /\ refreshStore' = storeRefreshToken(refreshStore, r.user.id,
                                                     r.refreshToken, REFRESH_TTL, now)
                /\ req' = [req EXCEPT ![p].pc = "register_session"]
           ELSE /\ refreshStore' = refreshStore
                /\ req' = [req EXCEPT ![p] = Finally(Catch(r, "REGISTRATION_FAILED", "Failed to register user"))]
        /\ UNCHANGED <<users, sessions, userCache, now, ticks>>

\* a register that hands out its tokens although the session insert failed
RegisterSession_FailOpen(p, ok) ==
    LET r == req[p]
    IN  /\ r.pc = "register_session"
        /\ sessions' = IF ok THEN Append(sessions, SessionRow(r.user.id, r.refreshToken, now))
                             ELSE sessions
        /\ req' = [req EXCEPT ![p] = [Finally(RespondTokens(r, 201)) EXCEPT !.fault = ~ok]]
        /\ UNCHANGED <<users, refreshStore, userCache, now, ticks>>

\* INSERT INTO sessions, then res.status(201).json({user, tokens})
RegisterSession(p, ok) ==
    LET r == req[p]
    IN  /\ r.pc = "register_session"
        /\ IF ok
           THEN /\ sessions' = Append(sessions, SessionRow(r.user.id, r.refreshToken, now))
                /\ req' = [req EXCEPT ![p] = Finally(RespondTokens(r, 201))]
           ELSE /\ sessions' = sessions
                /\ req' = [req EXCEPT ![p] = Finally(Catch(r, "REGISTRATION_FAILED", "Failed to register user"))]
        /\ UNCHANGED <<users, refreshStore, userCache, now, ticks>>

-----------------------------------------------------------------------------
(* login *)

\* the request arrives; const client = await db.pool.connect(), outside the
\* try block
LoginConnect(p, email, password, ok) ==
    LET a == [req[p] EXCEPT !.kind = "login", !.email = email, !.password = password]
    IN  /\ CanStart(p)
        /\ req' = [req EXCEPT ![p] =
              IF ok THEN [a EXCEPT !.pc = "login_select", !.client = "held"]
              ELSE Unhandled(a)]
        /\ UNCHANGED <<users, sessions, refreshStore, userCache, now, ticks>>

\* a login that compares the secret before it looks at the active flag
LoginSelect_CompareFirst(p, ok) ==
    LET a == req[p]
        password == a.password
        found == RowByEmail(a.email)
        user == IF found = {} THEN NoUser ELSE UserRow(CHOOSE i \in found : TRUE)
        r == [a EXCEPT !.rows = Cardinality(found), !.user = user]
    IN  /\ a.pc = "login_select"
        /\ req' = [req EXCEPT ![p] =
              IF ~ok THEN Finally(Catch(a, "LOGIN_FAILED", "Failed to login"))
              ELSE IF r.rows = 0
                   THEN Finally(Reject(r, 401, "INVALID_CREDENTIALS", "Invalid email or password"))
              ELSE IF ~bcryptCompare(password, user.password_hash)
                   THEN Finally(Reject(r, 401, "INVALID_CREDENTIALS", "Invalid email or password"))
              ELSE IF ~user.is_active
                   THEN Finally(Reject(r, 403, "ACCOUNT_DISABLED", "Your account has been disabled"))
              ELSE [r EXCEPT !.pc = "login_update"]]
        /\ UNCHANGED <<users, sessions, refreshStore, userCache, now, ticks>>

\* a login that tells an unknown email from a wrong secret
LoginSelect_UserNotFound(p, ok) ==
    LET a == req[p]
        password == a.password
        found == RowByEmail(a.email)
        user == IF found = {} THEN NoUser ELSE UserRow(CHOOSE i \in found : TRUE)
        r == [a EXCEPT !.rows = Cardinality(found), !.user = user]
    IN  /\ a.pc = "login_select"
        /\ req' = [req EXCEPT ![p] =
              IF ~ok THEN Finally(Catch(a, "LOGIN_FAILED", "Failed to login"))
              ELSE IF r.rows = 0
                   THEN Finally(Reject(r, 401, "INVALID_CREDENTIALS", "User not found"))
              ELSE IF ~user.is_active
                   THEN Finally(Reject(r, 403, "ACCOUNT_DISABLED", "Your account has been disabled"))
              ELSE IF ~bcryptCompare(password, user.password_hash)
                   THEN Finally(Reject(r, 401, "INVALID_CREDENTIALS", "Invalid email or password"))
              ELSE [r EXCEPT !.pc = "login_update"]]
        /\ UNCHANGED <<users, sessions, refreshStore, userCache, now, ticks>>

\* a login that stamps last_login on the row it found before it checks it
LoginSelect_StampFirst(p, ok) ==
    LET a == req[p]
        password == a.password
        found == RowByEmail(a.email)
        user == IF found = {} THEN NoUser ELSE UserRow(CHOOSE i \in found : TRUE)
        r == [a EXCEPT !.rows = Cardinality(found), !.user = user]
    IN  /\ a.pc = "login_select"
        /\ req' = [req EXCEPT ![p] =
              IF ~ok THEN Finally(Catch(a, "LOGIN_FAILED", "Failed to login"))
              ELSE IF r.rows = 0
                   THEN Finally(Reject(r, 401, "INVALID_CREDENTIALS", "Invalid email or password"))
              ELSE IF ~user.is_active
                   THEN Finally(Reject(r, 403, "ACCOUNT_DISABLED", "Your account has been disabled"))
              ELSE IF ~bcryptCompare(password, user.password_hash)
                   THEN Finally(Reject(r, 401, "INVALID_CREDENTIALS", "Invalid email or password"))
              ELSE [r EXCEPT !.pc = "login_update"]]
        /\ users' = IF ok /\ found # {}
                    THEN [users EXCEPT ![user.id].last_login = now]
                    ELSE users
        /\ UNCHANGED <<sessions, refreshStore, userCache, now, ticks>>

\* SELECT ... FROM users WHERE email = $1, the active check and
\* bcrypt.compare on the row that was read
LoginSelect(p, ok) ==
    LET a == req[p]
        password == a.password
        found == RowByEmail(a.email)
        user == IF found = {} THEN NoUser ELSE UserRow(CHOOSE i \in found : TRUE)
        r == [a EXCEPT !.rows = Cardinality(found), !.user = user]
    IN  /\ a.pc = "login_select"
        /\ req' = [req EXCEPT ![p] =
              IF ~ok THEN Finally(Catch(a, "LOGIN_FAILED", "Failed to login"))
              ELSE IF r.rows = 0
                   THEN Finally(Reject(r, 401, "INVALID_CREDENTIALS", "Invalid email or password"))
              ELSE IF ~user.is_active
                   THEN Finally(Reject(r, 403, "ACCOUNT_DISABLED", "Your account has been disabled"))
              ELSE IF ~bcryptCompare(password, user.password_hash)
                   THEN Finally(Reject(r, 401, "INVALID_CREDENTIALS", "Invalid email or password"))
              ELSE [r EXCEPT !.pc = "login_update"]]
        /\ UNCHANGED <<users, sessions, refreshStore, userCache, now, ticks>>

\* UPDATE users SET last_login = NOW() WHERE id = $1, then the tokens are signed
LoginUpdate(p, ok) ==
    LET r == req[p]
    IN  /\ r.pc = "login_update"
        /\ IF ok
           THEN /\ users' = [users EXCEPT ![r.user.id].last_login = now]
                /\ req' = [req EXCEPT ![p] =
                      [r EXCEPT !.pc = "login_store",
                                !.accessToken = generateAccessToken(r.user, now),
                                !.refreshToken = generateRefreshToken(r.user, now)]]
           ELSE /\ users' = users
                /\ req' = [req EXCEPT ![p] = Finally(Catch(r, "LOGIN_FAILED", "Failed to login"))]
        /\ UNCHANGED <<sessions, refreshStore, userCache, now, ticks>>

\* a login that goes on without having written the refresh record
LoginStore_NoWrite(p, ok) ==
    LET r == req[p]
    IN  /\ r.pc = "login_store"
        /\ refreshStore' = refreshStore
        /\ req' = [req EXCEPT ![p] =
              IF ok THEN [r EXCEPT !.pc = "login_session"]
              ELSE Finally(Catch(r, "LOGIN_FAILED", "Failed to login"))]
        /\ UNCHANGED <<users, sessions, userCache, now, ticks>>

\* await storeRefreshToken(user.id, refreshToken, 604800)
LoginStore(p, ok) ==
    LET r == req[p]
    IN  /\ r.pc = "login_store"
        /\ IF ok
           THEN /\ refreshStore' = storeRefreshToken(refreshStore, r.user.id,
                                                     r.refreshToken, REFRESH_TTL, now)
                /\ req' = [req EXCEPT ![p].pc = "login_session"]
           ELSE /\ refreshStore' = refreshStore
                /\ req' = [req EXCEPT ![p] = Finally(Catch(r, "LOGIN_FAILED", "Failed to login"))]
        /\ UNCHANGED <<users, sessions, userCache, now, ticks>>

\* a login that inserts its session row twice
LoginSession_Twice(p, ok) ==
    LET r == req[p]
        row == SessionRow(r.user.id, r.refreshToken, now)
    IN  /\ r.pc = "login_session"
        /\ IF ok
           THEN /\ sessions' = Append(Append(sessions, row), row)
                /\ req' = [req EXCEPT ![p].pc = "login_cache"]
           ELSE /\ sessions' = sessions
                /\ req' = [req EXCEPT ![p] = Finally(Catch(r, "LOGIN_FAILED", "Failed to login"))]
        /\ UNCHANGED <<users, refreshStore, userCache, now, ticks>>

\* INSERT INTO sessions
LoginSession(p, ok) ==
    LET r == req[p]
    IN  /\ r.pc = "login_session"
        /\ IF ok
           THEN /\ sessions' = Append(sessions, SessionRow(r.user.id, r.refreshToken, now))
                /\ req' = [req EXCEPT ![p].pc = "login_cache"]
           ELSE /\ sessions' = sessions
                /\ req' = [req EXCEPT ![p] = Finally(Catch(r, "LOGIN_FAILED", "Failed to login"))]
        /\ UNCHANGED <<users, refreshStore, userCache, now, ticks>>

\* the projection login caches under user:{id}
LoginProjection(user) ==
    [id |-> user.id, email |-> user.email, role |-> user.role,
     first_name |-> user.first_name]

\* cacheUserData(userId, userData, 900) at time t
cacheUserData(cache, userId, userData, t) ==
    SetEx(cache, userId, USER_CACHE_TTL, userData, t)

\* invalidateUserCache(userId)
invalidateUserCache(cache, userId) == Del(cache, {userId})

\* await cacheUserData(user.id, {...}), then res.json({user, tokens})
LoginCache(p, ok) ==
    LET r == req[p]
    IN  /\ r.pc = "login_cache"
        /\ IF ok
           THEN /\ userCache' = cacheUserData(userCache, r.user.id,
                                              LoginProjection(r.user), now)
                /\ req' = [req EXCEPT ![p] = Finally(RespondTokens(r, 200))]
           ELSE /\ userCache' = userCache
                /\ req' = [req EXCEPT ![p] = Finally(Catch(r, "LOGIN_FAILED", "Failed to login"))]
        /\ UNCHANGED <<users, sessions, refreshStore, now, ticks>>

-----------------------------------------------------------------------------
(* refresh *)

\* the request arrives; verifyRefreshToken(refresh_token) runs at once
RefreshVerify_StoreFirst(p, token) ==
    LET a == [req[p] EXCEPT !.kind = "refresh", !.token = token]
        r == [a EXCEPT
                !.storedToken = Get(refreshStore, RefreshKey(token.id, token)),
                !.isValid = IF isRefreshTokenValid(refreshStore, token.id, token)
                            THEN "true" ELSE "false"]
    IN  /\ CanStart(p)
        /\ req' = [req EXCEPT ![p] =
              IF r.isValid # "true"
              THEN Reject(r, 401, "TOKEN_REVOKED", "Refresh token has been revoked")
              ELSE IF ~verifyRefreshToken(token, now)
                   THEN Reject(r, 401, "INVALID_TOKEN", "Invalid or expired refresh token")
              ELSE [r EXCEPT !.pc = "refresh_check"]]
        /\ UNCHANGED <<users, sessions, refreshStore, userCache, now, ticks>>

RefreshVerify(p, token) ==
    LET r == [req[p] EXCEPT !.kind = "refresh", !.token = token]
    IN  /\ CanStart(p)
        /\ req' = [req EXCEPT ![p] =
              IF ~verifyRefreshToken(token, now)
              THEN Reject(r, 401, "INVALID_TOKEN", "Invalid or expired refresh token")
              ELSE [r EXCEPT !.pc = "refresh_check"]]
        /\ UNCHANGED <<users, sessions, refreshStore, userCache, now, ticks>>

\* a store check that consumes the record it finds
RefreshCheck_Consume(p, ok) ==
    LET a == req[p]
        r == [a EXCEPT
                !.storedToken = Get(refreshStore, RefreshKey(a.token.id, a.token)),
                !.isValid = IF isRefreshTokenValid(refreshStore, a.token.id, a.token)
                            THEN "true" ELSE "false"]
    IN  /\ a.pc = "refresh_check"
        /\ req' = [req EXCEPT ![p] =
              IF ~ok THEN Catch(a, "REFRESH_FAILED", "Failed to refresh token")
              ELSE IF r.isValid # "true"
                   THEN Reject(r, 401, "TOKEN_REVOKED", "Refresh token has been revoked")
              ELSE [r EXCEPT !.pc = "refresh_user"]]
        /\ refreshStore' = IF ok THEN revokeRefreshToken(refreshStore, a.token.id, a.token)
                                 ELSE refreshStore
        /\ UNCHANGED <<users, sessions, userCache, now, ticks>>

\* a store check that takes a failed cache call for "no record"
RefreshCheck_ErrorAsRevoked(p, ok) ==
    LET a == req[p]
        r == [a EXCEPT
                !.storedToken = Get(refreshStore, RefreshKey(a.token.id, a.token)),
                !.isValid = IF isRefreshTokenValid(refreshStore, a.token.id, a.token)
                            THEN "true" ELSE "false"]
    IN  /\ a.pc = "refresh_check"
        /\ req' = [req EXCEPT ![p] =
              IF ~ok
              THEN [Reject(a, 401, "TOKEN_REVOKED", "Refresh token has been revoked")
                      EXCEPT !.fault = TRUE]
              ELSE IF r.isValid # "true"
                   THEN Reject(r, 401, "TOKEN_REVOKED", "Refresh token has been revoked")
              ELSE [r EXCEPT !.pc = "refresh_user"]]
        /\ UNCHANGED <<users, sessions, refreshStore, userCache, now, ticks>>

\* await isRefreshTokenValid(decoded.id, refresh_token)
RefreshCheck(p, ok) ==
    LET a == req[p]
        r == [a EXCEPT
                !.storedToken = Get(refreshStore, RefreshKey(a.token.id, a.token)),
                !.isValid = IF isRefreshTokenValid(refreshStore, a.token.id, a.token)
                            THEN "true" ELSE "false"]
    IN  /\ a.pc = "refresh_check"
        /\ req' = [req EXCEPT ![p] =
              IF ~ok THEN Catch(a, "REFRESH_FAILED", "Failed to refresh token")
              ELSE IF r.isValid # "true"
                   THEN Reject(r, 401, "TOKEN_REVOKED", "Refresh token has been revoked")
              ELSE [r EXCEPT !.pc = "refresh_user"]]
        /\ UNCHANGED <<users, sessions, refreshStore, userCache, now, ticks>>

\* the body of a successful refresh response: an access token only
RespondAccess(r, token) ==
    [r EXCEPT !.pc = "done", !.status = 200, !.code = "OK",
              !.access_token = token, !.token_type = "Bearer",
              !.expires_in = EXPIRES_IN]

\* a refresh that rotates: the presented token's record is replaced by a new
\* refresh token, which the response carries
RefreshUser_Rotate(p, ok) ==
    LET a == req[p]
        id == a.token.id
        user == IF id \in UserIds THEN UserRow(id) ELSE NoUser
        r == [a EXCEPT !.rows = IF id \in UserIds THEN 1 ELSE 0, !.user = user]
        good == ok /\ r.rows = 1 /\ user.is_active
    IN  /\ a.pc = "refresh_user"
        /\ req' = [req EXCEPT ![p] =
              IF ~ok THEN Catch(a, "REFRESH_FAILED", "Failed to refresh token")
              ELSE IF ~good
                   THEN Reject(r, 401, "INVALID_USER", "User not found or inactive")
              ELSE [RespondAccess(r, generateAccessToken(user, now))
                      EXCEPT !.refresh_token = generateRefreshToken(user, now + 1)]]
        /\ refreshStore' =
              IF good
              THEN storeRefreshToken(revokeRefreshToken(refreshStore, id, a.token), id,
                                     generateRefreshToken(user, now + 1), REFRESH_TTL, now)
              ELSE refreshStore
        /\ UNCHANGED <<users, sessions, userCache, now, ticks>>

\* a refresh that signs the email and role the user had when the refresh
\* token was issued
RefreshUser_IssuanceClaims(p, ok) ==
    LET a == req[p]
        id == a.token.id
        user == IF id \in UserIds THEN UserRow(id) ELSE NoUser
        r == [a EXCEPT !.rows = IF id \in UserIds THEN 1 ELSE 0, !.user = user]
        then == {x \in Issued : x.key = "access" /\ x.id = id /\ x.iat = a.token.iat}
        old == IF then = {} THEN user
               ELSE LET x == CHOOSE y \in then : TRUE
                    IN  [user EXCEPT !.email = x.email, !.role = x.role]
    IN  /\ a.pc = "refresh_user"
        /\ req' = [req EXCEPT ![p] =
              IF ~ok THEN Catch(a, "REFRESH_FAILED", "Failed to refresh token")
              ELSE IF r.rows = 0 \/ ~user.is_active
                   THEN Reject(r, 401, "INVALID_USER", "User not found or inactive")
              ELSE RespondAccess(r, generateAccessToken(old, now))]
        /\ UNCHANGED <<users, sessions, refreshStore, userCache, now, ticks>>

\* a refresh that wants the row to exist and does not look at is_active
RefreshUser_SkipActive(p, ok) ==
    LET a == req[p]
        id == a.token.id
        user == IF id \in UserIds THEN UserRow(id) ELSE NoUser
        r == [a EXCEPT !.rows = IF id \in UserIds THEN 1 ELSE 0, !.user = user]
    IN  /\ a.pc = "refresh_user"
        /\ req' = [req EXCEPT ![p] =
              IF ~ok THEN Catch(a, "REFRESH_FAILED", "Failed to refresh token")
              ELSE IF r.rows = 0
                   THEN Reject(r, 401, "INVALID_USER", "User not found or inactive")
              ELSE RespondAccess(r, generateAccessToken(user, now))]
        /\ UNCHANGED <<users, sessions, refreshStore, userCache, now, ticks>>

\* SELECT ... FROM users WHERE id = $1, then the access token is signed
RefreshUser(p, ok) ==
    LET a == req[p]
        id == a.token.id
        user == IF id \in UserIds THEN UserRow(id) ELSE NoUser
        r == [a EXCEPT !.rows = IF id \in UserIds THEN 1 ELSE 0, !.user = user]
    IN  /\ a.pc = "refresh_user"
        /\ req' = [req EXCEPT ![p] =
              IF ~ok THEN Catch(a, "REFRESH_FAILED", "Failed to refresh token")
              ELSE IF r.rows = 0 \/ ~user.is_active
                   THEN Reject(r, 401, "INVALID_USER", "User not found or inactive")
              ELSE RespondAccess(r, generateAccessToken(user, now))]
        /\ UNCHANGED <<users, sessions, refreshStore, userCache, now, ticks>>

-----------------------------------------------------------------------------
(* logout *)

\* res.json({success: true, message: 'Logged out successfully'})
RespondOk(r, message) ==
    [r EXCEPT !.pc = "done", !.status = 200, !.code = "OK", !.message = message]

\* the request arrives; authenticate verifies the bearer token and sets
\* req.user, then logout reads req.body.refresh_token and req.body.all_devices
LogoutAuthenticate(p, authHeader, token, all_devices) ==
    LET a == authenticate([req[p] EXCEPT !.kind = "logout"], authHeader, now)
        r == [a EXCEPT !.token = token, !.all_devices = all_devices]
    IN  /\ CanStart(p)
        /\ req' = [req EXCEPT ![p] =
              IF a.pc = "done" THEN a
              ELSE IF token # NoToken THEN [r EXCEPT !.pc = "logout_revoke"]
              ELSE IF all_devices THEN [r EXCEPT !.pc = "logout_keys"]
              ELSE RespondOk(r, "Logged out successfully")]
        /\ UNCHANGED <<users, sessions, refreshStore, userCache, now, ticks>>

\* a logout that refuses a named token which has no record
LogoutRevoke_ExistenceChecked(p, ok) ==
    LET r == req[p]
    IN  /\ r.pc = "logout_revoke"
        /\ IF ok
           THEN /\ refreshStore' = revokeRefreshToken(refreshStore, r.auth.id, r.token)
                /\ req' = [req EXCEPT ![p] =
                      IF Get(refreshStore, RefreshKey(r.auth.id, r.token)) = NoToken
                      THEN Reject(r, 404, "TOKEN_NOT_FOUND", "Refresh token not found")
                      ELSE IF r.all_devices THEN [r EXCEPT !.pc = "logout_keys"]
                      ELSE RespondOk(r, "Logged out successfully")]
           ELSE /\ refreshStore' = refreshStore
                /\ req' = [req EXCEPT ![p] = Catch(r, "LOGOUT_FAILED", "Failed to logout")]
        /\ UNCHANGED <<users, sessions, userCache, now, ticks>>

\* a logout that also marks the session rows of the named token revoked
LogoutRevoke_MarkSession(p, ok) ==
    LET r == req[p]
    IN  /\ r.pc = "logout_revoke"
        /\ IF ok
           THEN /\ refreshStore' = revokeRefreshToken(refreshStore, r.auth.id, r.token)
                /\ sessions' = [k \in 1..Len(sessions) |->
                                  IF sessions[k].refresh_token = r.token
                                  THEN [sessions[k] EXCEPT !.revoked_at = now]
                                  ELSE sessions[k]]
                /\ req' = [req EXCEPT ![p] =
                      IF r.all_devices THEN [r EXCEPT !.pc = "logout_keys"]
                      ELSE RespondOk(r, "Logged out successfully")]
           ELSE /\ refreshStore' = refreshStore
                /\ sessions' = sessions
                /\ req' = [req EXCEPT ![p] = Catch(r, "LOGOUT_FAILED", "Failed to logout")]
        /\ UNCHANGED <<users, userCache, now, ticks>>

\* await revokeRefreshToken(userId, refreshToken)
LogoutRevoke(p, ok) ==
    LET r == req[p]
    IN  /\ r.pc = "logout_revoke"
        /\ IF ok
           THEN /\ refreshStore' = revokeRefreshToken(refreshStore, r.auth.id, r.token)
                /\ req' = [req EXCEPT ![p] =
                      IF r.all_devices THEN [r EXCEPT !.pc = "logout_keys"]
                      ELSE RespondOk(r, "Logged out successfully")]
           ELSE /\ refreshStore' = refreshStore
                /\ req' = [req EXCEPT ![p] = Catch(r, "LOGOUT_FAILED", "Failed to logout")]
        /\ UNCHANGED <<users, sessions, userCache, now, ticks>>

\* a logout that puts the named record back when the scan fails
LogoutKeys_Restore(p, ok) ==
    LET r == req[p]
        keys == Keys(refreshStore, r.auth.id)
    IN  /\ r.pc = "logout_keys"
        /\ req' = [req EXCEPT ![p] =
              IF ~ok THEN Catch(r, "LOGOUT_FAILED", "Failed to logout")
              ELSE IF keys # {} THEN [r EXCEPT !.pc = "logout_del", !.keys = keys]
              ELSE RespondOk(r, "Logged out successfully")]
        /\ refreshStore' =
              IF ~ok /\ r.token # NoToken
              THEN storeRefreshToken(refreshStore, r.auth.id, r.token,
                                     r.token.exp - now, now)
              ELSE refreshStore
        /\ UNCHANGED <<users, sessions, userCache, now, ticks>>

\* revokeAllUserTokens: const keys = await redisClient.keys(pattern)
LogoutKeys(p, ok) ==
    LET r == req[p]
        keys == Keys(refreshStore, r.auth.id)
    IN  /\ r.pc = "logout_keys"
        /\ req' = [req EXCEPT ![p] =
              IF ~ok THEN Catch(r, "LOGOUT_FAILED", "Failed to logout")
              ELSE IF keys # {} THEN [r EXCEPT !.pc = "logout_del", !.keys = keys]
              ELSE RespondOk(r, "Logged out successfully")]
        /\ UNCHANGED <<users, sessions, refreshStore, userCache, now, ticks>>

\* a delete that scans again and removes whatever the user has by then
LogoutDel_FreshScan(p, ok) ==
    LET r == req[p]
    IN  /\ r.pc = "logout_del"
        /\ IF ok
           THEN /\ refreshStore' = Del(refreshStore, Keys(refreshStore, r.auth.id))
                /\ req' = [req EXCEPT ![p] = RespondOk(r, "Logged out successfully")]
           ELSE /\ refreshStore' = refreshStore
                /\ req' = [req EXCEPT ![p] = Catch(r, "LOGOUT_FAILED", "Failed to logout")]
        /\ UNCHANGED <<users, sessions, userCache, now, ticks>>

\* revokeAllUserTokens: await redisClient.del(keys)
LogoutDel(p, ok) ==
    LET r == req[p]
    IN  /\ r.pc = "logout_del"
        /\ IF ok
           THEN /\ refreshStore' = Del(refreshStore, r.keys)
                /\ req' = [req EXCEPT ![p] = RespondOk(r, "Logged out successfully")]
           ELSE /\ refreshStore' = refreshStore
                /\ req' = [req EXCEPT ![p] = Catch(r, "LOGOUT_FAILED", "Failed to logout")]
        /\ UNCHANGED <<users, sessions, userCache, now, ticks>>

-----------------------------------------------------------------------------
(* deleteUser (DELETE /:id, authenticate, authorize('admin')) *)

\* the request arrives; authenticate, then authorize('admin') if
\* authenticate called next
DeleteUserAuthorize(p, authHeader, id) ==
    LET a == authenticate([req[p] EXCEPT !.kind = "deleteUser", !.target = id],
                          authHeader, now)
        r == IF a.pc = "done" THEN a ELSE authorize(a, {"admin"})
    IN  /\ CanStart(p)
        /\ req' = [req EXCEPT ![p] =
              IF r.pc = "done" THEN r ELSE [r EXCEPT !.pc = "delete_update"]]
        /\ UNCHANGED <<users, sessions, refreshStore, userCache, now, ticks>>

\* UPDATE users SET is_active = false WHERE id = $1 RETURNING id, email
DeleteUserUpdate(p, ok) ==
    LET r == req[p]
    IN  /\ r.pc = "delete_update"
        /\ IF ok /\ r.target \in UserIds
           THEN /\ users' = [users EXCEPT ![r.target].is_active = FALSE]
                /\ req' = [req EXCEPT ![p].pc = "delete_invalidate"]
           ELSE /\ users' = users
                /\ req' = [req EXCEPT ![p] =
                      IF ~ok THEN Catch(r, "DELETE_FAILED", "Failed to deactivate user")
                      ELSE Reject(r, 404, "USER_NOT_FOUND", "User not found")]
        /\ UNCHANGED <<sessions, refreshStore, userCache, now, ticks>>

\* await invalidateUserCache(id), then res.json({success: true})
DeleteUserInvalidate(p, ok) ==
    LET r == req[p]
    IN  /\ r.pc = "delete_invalidate"
        /\ IF ok
           THEN /\ userCache' = invalidateUserCache(userCache, r.target)
                /\ req' = [req EXCEPT ![p] =
                      RespondOk(r, "User deactivated successfully")]
           ELSE /\ userCache' = userCache
                /\ req' = [req EXCEPT ![p] =
                      Catch(r, "DELETE_FAILED", "Failed to deactivate user")]
        /\ UNCHANGED <<users, sessions, refreshStore, now, ticks>>

-----------------------------------------------------------------------------
(* getMe (GET /me, authenticate) *)

\* the row as the SELECT of getMe returns it
FullRow(i) ==
    [id |-> i, email |-> users[i].email, role |-> users[i].role,
     first_name |-> users[i].first_name, last_login |-> users[i].last_login,
     is_active |-> users[i].is_active]

\* res.json({success: true, data})
RespondData(r, data) ==
    [r EXCEPT !.pc = "done", !.status = 200, !.code = "OK", !.data = data]

\* getCachedUserData(userId): the parsed value, or NoToken for null
getCachedUserData(cache, userId) == Get(cache, userId)

\* an authenticate that also looks the token's user up and wants it active
GetMeAuthenticate_CheckActive(p, authHeader) ==
    LET r == authenticate([req[p] EXCEPT !.kind = "getMe"], authHeader, now)
    IN  /\ CanStart(p)
        /\ req' = [req EXCEPT ![p] =
              IF r.pc = "done" THEN r
              ELSE IF r.auth.id \in UserIds /\ ~users[r.auth.id].is_active
              THEN Reject(r, 401, "INVALID_TOKEN", "Invalid or expired token")
              ELSE [r EXCEPT !.pc = "getme_cached"]]
        /\ UNCHANGED <<users, sessions, refreshStore, userCache, now, ticks>>

\* the request arrives; authenticate verifies the bearer token
GetMeAuthenticate(p, authHeader) ==
    LET r == authenticate([req[p] EXCEPT !.kind = "getMe"], authHeader, now)
    IN  /\ CanStart(p)
        /\ req' = [req EXCEPT ![p] =
              IF r.pc = "done" THEN r ELSE [r EXCEPT !.pc = "getme_cached"]]
        /\ UNCHANGED <<users, sessions, refreshStore, userCache, now, ticks>>

\* a getMe that takes a cache miss for a missing user
GetMeCached_MissIsNotFound(p, ok) ==
    LET a == req[p]
        r == [a EXCEPT !.cached = getCachedUserData(userCache, a.auth.id)]
    IN  /\ a.pc = "getme_cached"
        /\ req' = [req EXCEPT ![p] =
              IF ~ok THEN Catch(a, "FETCH_FAILED", "Failed to fetch user profile")
              ELSE IF r.cached # NoToken THEN RespondData(r, r.cached)
              ELSE Reject(r, 404, "USER_NOT_FOUND", "User not found")]
        /\ UNCHANGED <<users, sessions, refreshStore, userCache, now, ticks>>

\* let user = await getCachedUserData(userId); a hit is sent as it is
GetMeCached(p, ok) ==
    LET a == req[p]
        r == [a EXCEPT !.cached = getCachedUserData(userCache, a.auth.id)]
    IN  /\ a.pc = "getme_cached"
        /\ req' = [req EXCEPT ![p] =
              IF ~ok THEN Catch(a, "FETCH_FAILED", "Failed to fetch user profile")
              ELSE IF r.cached # NoToken THEN RespondData(r, r.cached)
              ELSE [r EXCEPT !.pc = "getme_select"]]
        /\ UNCHANGED <<users, sessions, refreshStore, userCache, now, ticks>>

\* SELECT ... FROM users WHERE id = $1
GetMeSelect(p, ok) ==
    LET a == req[p]
        id == a.auth.id
        r == [a EXCEPT !.rows = IF id \in UserIds THEN 1 ELSE 0]
    IN  /\ a.pc = "getme_select"
        /\ req' = [req EXCEPT ![p] =
              IF ~ok THEN Catch(a, "FETCH_FAILED", "Failed to fetch user profile")
              ELSE IF r.rows = 0 THEN Reject(r, 404, "USER_NOT_FOUND", "User not found")
              ELSE [r EXCEPT !.pc = "getme_cache", !.data = FullRow(id)]]
        /\ UNCHANGED <<users, sessions, refreshStore, userCache, now, ticks>>

\* await cacheUserData(userId, user), then res.json({success: true, data: user})
GetMeCache(p, ok) ==
    LET r == req[p]
    IN  /\ r.pc = "getme_cache"
        /\ IF ok
           THEN /\ userCache' = cacheUserData(userCache, r.auth.id, r.data, now)
                /\ req' = [req EXCEPT ![p] = RespondData(r, r.data)]
           ELSE /\ userCache' = userCache
                /\ req' = [req EXCEPT ![p] =
                      Catch([r EXCEPT !.data = NoData], "FETCH_FAILED",
                            "Failed to fetch user profile")]
        /\ UNCHANGED <<users, sessions, refreshStore, now, ticks>>

-----------------------------------------------------------------------------
(* updateMe (PUT /me, authenticate, validate(updateProfile)) *)

\* the row as the UPDATE ... RETURNING of updateMe returns it
UpdatedRow(rows, i) ==
    [id |-> i, email |-> rows[i].email, role |-> rows[i].role,
     first_name |-> rows[i].first_name]

\* schemas.updateProfile: the keys the schema knows, all optional strings
\* (first_name stands for the profile columns)
updateProfile == {"first_name"}

\* the request bodies of updateMe, as sets of <<key, value>>: no field, a
\* first name, an empty first name, and bodies that also name the column role
Bodies ==
    {{}} \cup {{<<"first_name", n>>} : n \in FirstNames \cup {""}}
         \cup {{<<"role", "admin">>}, {<<"first_name", "Bob">>, <<"role", "admin">>}}

\* a validation that passes unknown keys on
validate_KeepUnknown(schema, body) ==
    [error |-> \E kv \in body : kv[1] \in schema /\ kv[2] = "",
     value |-> body]

\* schema.validate(req.body, {abortEarly: false, stripUnknown: true}): keys
\* the schema does not know are dropped; Joi.string() refuses the empty string
validate(schema, body) ==
    [error |-> \E kv \in body : kv[1] \in schema /\ kv[2] = "",
     value |-> {kv \in body : kv[1] \in schema}]

\* the row after UPDATE users SET key = value, ... for the pairs of updates
SetFields(row, updates) ==
    [f \in DOMAIN row |->
        IF \E kv \in updates : kv[1] = f
        THEN (CHOOSE kv \in updates : kv[1] = f)[2]
        ELSE row[f]]

\* the request arrives; authenticate, then validate(schemas.updateProfile);
\* updateMe answers 400 at once when req.validatedBody has no field
UpdateMeAuthenticate(p, authHeader, body) ==
    LET a == authenticate([req[p] EXCEPT !.kind = "updateMe"], authHeader, now)
        v == validate(updateProfile, body)
        b == [a EXCEPT !.body = body]
        r == [b EXCEPT !.validatedBody = v.value]
    IN  /\ CanStart(p)
        /\ req' = [req EXCEPT ![p] =
              IF a.pc = "done" THEN a
              ELSE IF v.error
                   THEN Reject(b, 400, "VALIDATION_ERROR", "Invalid request data")
              ELSE IF v.value = {}
                   THEN Reject([r EXCEPT !.next = @ + 1], 400, "NO_UPDATES",
                               "No fields to update")
              ELSE [r EXCEPT !.pc = "updateme_update", !.next = @ + 1]]
        /\ UNCHANGED <<users, sessions, refreshStore, userCache, now, ticks>>

\* UPDATE users SET ${fields.join(', ')} WHERE id = $n RETURNING ..., the
\* fields being the keys of req.validatedBody
UpdateMeUpdate(p, ok) ==
    LET r == req[p]
        id == r.auth.id
        rows == IF id \in UserIds
                THEN [users EXCEPT ![id] = SetFields(@, r.validatedBody)]
                ELSE users
    IN  /\ r.pc = "updateme_update"
        /\ IF ok
           THEN /\ users' = rows
                /\ req' = [req EXCEPT ![p] =
                      [r EXCEPT !.pc = "updateme_invalidate",
                                !.rows = IF id \in UserIds THEN 1 ELSE 0,
                                !.data = IF id \in UserIds THEN UpdatedRow(rows, id)
                                         ELSE NoData]]
           ELSE /\ users' = users
                /\ req' = [req EXCEPT ![p] =
                      Catch(r, "UPDATE_FAILED", "Failed to update profile")]
        /\ UNCHANGED <<sessions, refreshStore, userCache, now, ticks>>

\* await invalidateUserCache(userId), then res.json({success: true, data: user})
UpdateMeInvalidate(p, ok) ==
    LET r == req[p]
    IN  /\ r.pc = "updateme_invalidate"
        /\ IF ok
           THEN /\ userCache' = invalidateUserCache(userCache, r.auth.id)
                /\ req' = [req EXCEPT ![p] = RespondData(r, r.data)]
           ELSE /\ userCache' = userCache
                /\ req' = [req EXCEPT ![p] =
                      Catch([r EXCEPT !.data = NoData], "UPDATE_FAILED",
                            "Failed to update profile")]
        /\ UNCHANGED <<users, sessions, refreshStore, now, ticks>>

-----------------------------------------------------------------------------
(* updateUserRole (PUT /:id/role, authenticate, authorize('admin')) *)

\* the request arrives; authenticate, then authorize('admin') if
\* authenticate called next
UpdateUserRoleAuthorize(p, authHeader, id, role) ==
    LET a == authenticate([req[p] EXCEPT !.kind = "updateUserRole",
                                         !.target = id, !.role = role],
                          authHeader, now)
        r == IF a.pc = "done" THEN a ELSE authorize(a, {"admin"})
    IN  /\ CanStart(p)
        /\ req' = [req EXCEPT ![p] =
              IF r.pc = "done" THEN r ELSE [r EXCEPT !.pc = "role_update"]]
        /\ UNCHANGED <<users, sessions, refreshStore, userCache, now, ticks>>

\* UPDATE users SET role = $1 WHERE id = $2 RETURNING ...
UpdateUserRoleUpdate(p, ok) ==
    LET r == req[p]
        rows == [users EXCEPT ![r.target].role = r.role]
    IN  /\ r.pc = "role_update"
        /\ IF ok /\ r.target \in UserIds
           THEN /\ users' = rows
                /\ req' = [req EXCEPT ![p] =
                      [r EXCEPT !.pc = "role_invalidate", !.rows = 1,
                                !.data = UpdatedRow(rows, r.target)]]
           ELSE /\ users' = users
                /\ req' = [req EXCEPT ![p] =
                      IF ~ok THEN Catch(r, "UPDATE_FAILED", "Failed to update user role")
                      ELSE Reject(r, 404, "USER_NOT_FOUND", "User not found")]
        /\ UNCHANGED <<sessions, refreshStore, userCache, now, ticks>>

\* await invalidateUserCache(id), then res.json({success: true, data})
UpdateUserRoleInvalidate(p, ok) ==
    LET r == req[p]
    IN  /\ r.pc = "role_invalidate"
        /\ IF ok
           THEN /\ userCache' = invalidateUserCache(userCache, r.target)
                /\ req' = [req EXCEPT ![p] = RespondData(r, r.data)]
           ELSE /\ userCache' = userCache
                /\ req' = [req EXCEPT ![p] =
                      Catch([r EXCEPT !.data = NoData], "UPDATE_FAILED",
                            "Failed to update user role")]
        /\ UNCHANGED <<users, sessions, refreshStore, now, ticks>>

-----------------------------------------------------------------------------
(* The system *)

Register(p) ==
    \/ \E email \in EmailInputs, password \in RegisterPasswords, role \in Roles,
          first_name \in RegisterNames, ok \in Outcomes :
          RegisterConnect(p, email, password, role, first_name, ok)
    \/ \E ok \in Outcomes : RegisterSelect(p, ok)
    \/ \E ok \in Outcomes : RegisterInsert(p, ok)
    \/ \E ok \in Outcomes : RegisterStore(p, ok)
    \/ \E ok \in Outcomes : RegisterSession(p, ok)

Login(p) ==
    \/ \E email \in EmailInputs, password \in Passwords, ok \in Outcomes :
          LoginConnect(p, email, password, ok)
    \/ \E ok \in Outcomes : LoginSelect(p, ok)
    \/ \E ok \in Outcomes : LoginUpdate(p, ok)
    \/ \E ok \in Outcomes : LoginStore(p, ok)
    \/ \E ok \in Outcomes : LoginSession(p, ok)
    \/ \E ok \in Outcomes : LoginCache(p, ok)

Refresh(p) ==
    \/ \E token \in Presentable : RefreshVerify(p, token)
    \/ \E ok \in Outcomes : RefreshCheck(p, ok)
    \/ \E ok \in Outcomes : RefreshUser(p, ok)

Logout(p) ==
    \/ \E authHeader \in AuthHeaders, token \in IssuedRefresh \cup {NoToken},
          all_devices \in BOOLEAN :
          LogoutAuthenticate(p, authHeader, token, all_devices)
    \/ \E ok \in Outcomes : LogoutRevoke(p, ok)
    \/ \E ok \in Outcomes : LogoutKeys(p, ok)
    \/ \E ok \in Outcomes : LogoutDel(p, ok)

DeleteUser(p) ==
    \/ \E authHeader \in AuthHeaders, id \in UserIds :
          DeleteUserAuthorize(p, authHeader, id)
    \/ \E ok \in Outcomes : DeleteUserUpdate(p, ok)
    \/ \E ok \in Outcomes : DeleteUserInvalidate(p, ok)

GetMe(p) ==
    \/ \E authHeader \in AuthHeaders : GetMeAuthenticate(p, authHeader)
    \/ \E ok \in Outcomes : GetMeCached(p, ok)
    \/ \E ok \in Outcomes : GetMeSelect(p, ok)
    \/ \E ok \in Outcomes : GetMeCache(p, ok)

UpdateMe(p) ==
    \/ \E authHeader \in AuthHeaders, body \in Bodies :
          UpdateMeAuthenticate(p, authHeader, body)
    \/ \E ok \in Outcomes : UpdateMeUpdate(p, ok)
    \/ \E ok \in Outcomes : UpdateMeInvalidate(p, ok)

UpdateUserRole(p) ==
    \/ \E authHeader \in AuthHeaders, id \in UserIds, role \in Roles :
          UpdateUserRoleAuthorize(p, authHeader, id, role)
    \/ \E ok \in Outcomes : UpdateUserRoleUpdate(p, ok)
    \/ \E ok \in Outcomes : UpdateUserRoleInvalidate(p, ok)

Next ==
    \/ Tick
    \/ \E p \in Requests : Register(p)
    \/ \E p \in Requests : Login(p)
    \/ \E p \in Requests : Refresh(p)
    \/ \E p \in Requests : Logout(p)
    \/ \E p \in Requests : DeleteUser(p)

Spec == Init /\ [][Next]_vars

-----------------------------------------------------------------------------
(* One registered user with one device, and the clock free to advance while *)
(* that user's logins and logouts are in flight.                            *)

RaceUser ==
    [id |-> 1, email |-> EmailSeq[1], password_hash |-> bcryptHash("Passw0rd!"),
     role |-> "client", first_name |-> "Ann", is_active |-> TRUE]

\* request 1 was register(a@x.com, Passw0rd!, client), answered 201 at time 0
RaceRegistered ==
    Finally(RespondTokens(
                  [Idle EXCEPT !.kind = "register", !.email = RaceUser.email,
                               !.client = "held",
                               !.password = "Passw0rd!", !.role = RaceUser.role,
                               !.first_name = RaceUser.first_name,
                               !.rows = 0, !.user = RaceUser,
                               !.accessToken = generateAccessToken(RaceUser, 0),
                               !.refreshToken = generateRefreshToken(RaceUser, 0)],
                  201))

RaceInit ==
    /\ users = <<[email |-> RaceUser.email, password_hash |-> RaceUser.password_hash,
                  role |-> RaceUser.role, first_name |-> RaceUser.first_name,
                  is_active |-> TRUE, last_login |-> -1]>>
    /\ sessions = <<SessionRow(1, generateRefreshToken(RaceUser, 0), 0)>>
    /\ refreshStore = storeRefreshToken({}, 1, generateRefreshToken(RaceUser, 0),
                                        REFRESH_TTL, 0)
    /\ userCache = {}
    /\ req = [p \in Requests |-> IF p = 1 THEN RaceRegistered ELSE Idle]
    /\ now = 0
    /\ ticks = 0

RaceNext ==
    \/ TickAny
    \/ \E p \in Requests : Login(p)
    \/ \E p \in Requests : Logout(p)

SpecRace == RaceInit /\ [][RaceNext]_vars

-----------------------------------------------------------------------------
(* One registered administrator, and the requests that read and change     *)
(* user rows: getMe, updateMe, updateUserRole, deleteUser, next to         *)
(* register, login, refresh and logout.                                     *)

AdminUser == [RaceUser EXCEPT !.role = "admin"]

\* request 1 was register(a@x.com, Passw0rd!, admin), answered 201 at time 0
AdminRegistered ==
    RespondTokens([RaceRegistered EXCEPT !.role = "admin", !.user = AdminUser,
                                         !.accessToken = generateAccessToken(AdminUser, 0)],
                  201)

AdminInit ==
    /\ users = <<[email |-> AdminUser.email, password_hash |-> AdminUser.password_hash,
                  role |-> AdminUser.role, first_name |-> AdminUser.first_name,
                  is_active |-> TRUE, last_login |-> -1]>>
    /\ sessions = <<SessionRow(1, generateRefreshToken(AdminUser, 0), 0)>>
    /\ refreshStore = storeRefreshToken({}, 1, generateRefreshToken(AdminUser, 0),
                                        REFRESH_TTL, 0)
    /\ userCache = {}
    /\ req = [p \in Requests |-> IF p = 1 THEN AdminRegistered ELSE Idle]
    /\ now = 0
    /\ ticks = 0

AdminNext ==
    \/ Tick
    \/ \E p \in Requests : Register(p)
    \/ \E p \in Requests : Login(p)
    \/ \E p \in Requests : Refresh(p)
    \/ \E p \in Requests : Logout(p)
    \/ \E p \in Requests : GetMe(p)
    \/ \E p \in Requests : UpdateMe(p)
    \/ \E p \in Requests : UpdateUserRole(p)
    \/ \E p \in Requests : DeleteUser(p)

SpecAdmin == AdminInit /\ [][AdminNext]_vars

-----------------------------------------------------------------------------
(* Properties *)

\* the record the cache holds under refresh_token:{userId}:{hash(token)}
HasRecord(store, userId, token) ==
    \E r \in store : r.key = RefreshKey(userId, token) /\ r.value = token

\* C1: a refresh that passed its store check, or was answered with an access
\* token, presented a token signed under the refresh secret and read from the
\* cache, under key (token.id, hash(token)), that very token.  A refresh that
\* read nothing or something else there hands out no access token.
C1_RefreshNeedsRecord ==
    \A p \in Requests : req[p].kind = "refresh" =>
        /\ (req[p].pc = "refresh_user" \/ req[p].access_token # NoToken)
              => /\ req[p].token.key = "refresh"
                 /\ req[p].isValid = "true"
                 /\ req[p].storedToken = req[p].token
        /\ (req[p].isValid # "unset" /\ req[p].storedToken # req[p].token)
              => /\ req[p].access_token = NoToken
                 /\ req[p].pc = "done"
                 /\ req[p].status # 200

\* C1 witness: a refresh was answered with an access token
C1_Witness ==
    \E p \in Requests :
        /\ req[p].kind = "refresh"
        /\ req[p].status = 200
        /\ req[p].access_token # NoToken

\* the refresh tokens the system has signed and still knows of
KnownRefresh ==
    (IssuedRefresh \cup {r.value : r \in refreshStore}
       \cup {req[p].refreshToken : p \in Requests}) \ {NoToken}

\* C2: in every reachable cache, for every user u and refresh token t: after
\* storeRefreshToken(u, t, ttl) the token is valid and stays valid at every
\* instant before the ttl has elapsed, and not after it; after
\* revokeRefreshToken(u, t) it is not valid; revoking an absent record leaves
\* the cache as it was.  Every record the cache holds is unexpired and valid.
C2_PutRevokeIsValid ==
    /\ \A r \in refreshStore :
          now < r.exp /\ isRefreshTokenValid(refreshStore, r.key[1], r.value)
    /\ \A u \in UserIds, t \in KnownRefresh :
          LET put == storeRefreshToken(refreshStore, u, t, REFRESH_TTL, now)
          IN  /\ isRefreshTokenValid(put, u, t)
              /\ \A d \in TickSteps :
                    isRefreshTokenValid(Expire(put, now + d), u, t) <=> d < REFRESH_TTL
              /\ ~isRefreshTokenValid(revokeRefreshToken(put, u, t), u, t)
              /\ ~isRefreshTokenValid(revokeRefreshToken(refreshStore, u, t), u, t)
              /\ ~HasRecord(refreshStore, u, t)
                    => revokeRefreshToken(refreshStore, u, t) = refreshStore

\* C2 witness: a logout that named the caller's own issued refresh token has
\* returned, the token is not valid, and another record is in the cache
C2_Witness ==
    \E p \in Requests :
        /\ req[p].kind = "logout"
        /\ req[p].status = 200
        /\ req[p].token \in IssuedRefresh
        /\ req[p].token.id = req[p].auth.id
        /\ ~isRefreshTokenValid(refreshStore, req[p].auth.id, req[p].token)
        /\ refreshStore # {}

\* a step of request p that wrote its refresh token to the cache
PutStep(p) ==
    /\ req[p].pc \in {"register_store", "login_store"}
    /\ req'[p].pc \in {"register_session", "login_session"}

\* a step of request p whose del command the cache executed
DeleteStep(p) ==
    /\ req[p].pc \in {"logout_revoke", "logout_del"}
    /\ req'[p] # req[p]
    /\ ~req'[p].fault

\* the keys that del command named
DeletedKeys(p) ==
    IF req[p].pc = "logout_revoke"
    THEN {RefreshKey(req[p].auth.id, req[p].token)}
    ELSE req[p].keys

\* the logout request p has just scanned the caller's keys
ScanStep(p) ==
    /\ req[p].pc = "logout_keys"
    /\ req'[p] # req[p]
    /\ ~req'[p].fault

\* C3: when revokeAllUserTokens(u) returns and no put for u came between its
\* scan and its delete, no record of u is left, so none of the tokens that
\* were valid for u is valid; and no step of a logout made under identity u
\* deletes or changes a record keyed under another user, whichever token the
\* logout names.
C3_RevokeAllFrame ==
    [][\A p \in Requests :
        /\ (ScanStep(p) /\ req'[p].pc = "done")
              => Keys(refreshStore', req[p].auth.id) = {}
        /\ (req[p].pc = "logout_del" /\ DeleteStep(p)
            /\ Keys(refreshStore, req[p].auth.id) \subseteq req[p].keys)
              => /\ Keys(refreshStore', req[p].auth.id) = {}
                 /\ \A r \in refreshStore : r.key[1] = req[p].auth.id
                       => ~isRefreshTokenValid(refreshStore', r.key[1], r.value)
        /\ (req'[p].kind = "logout" /\ req'[p] # req[p])
              => \A r \in refreshStore :
                    r.key[1] # req'[p].auth.id => r \in refreshStore']_vars

\* C3 witness: a logout with all_devices has deleted the caller's records and
\* returned while a record of another user is in the cache
C3_Witness ==
    \E p \in Requests :
        /\ req[p].kind = "logout"
        /\ req[p].all_devices
        /\ req[p].status = 200
        /\ req[p].keys # {}
        /\ Keys(refreshStore, req[p].auth.id) = {}
        /\ \E r \in refreshStore : r.key[1] # req[p].auth.id

\* C4: revokeAllUserTokens scans, then deletes.  Whatever a login of the
\* same user on another device does meanwhile: its put takes effect when it
\* runs; the scan returns every record of the user the cache holds then; the
\* delete removes exactly the scanned keys, so every record written before the
\* scan is invalid when it returns, and a record put under a new key between
\* scan and delete stays valid.
C4_RevokeAllRace ==
    [][\A p \in Requests :
        /\ PutStep(p) =>
              isRefreshTokenValid(refreshStore', req[p].user.id, req[p].refreshToken)
        /\ (ScanStep(p) /\ req'[p].pc = "logout_del")
              => req'[p].keys = {r.key : r \in {x \in refreshStore :
                                                  x.key[1] = req[p].auth.id}}
        /\ (req[p].pc = "logout_del" /\ DeleteStep(p))
              => \A r \in refreshStore :
                    IF r.key \in req[p].keys
                    THEN ~isRefreshTokenValid(refreshStore', r.key[1], r.value)
                    ELSE r \in refreshStore']_vars

\* C4 witness: a logout from all devices has scanned the user's keys and not
\* yet deleted them, and a login of the same user has meanwhile put a record
\* under a key the scan did not return
C4_Witness ==
    \E p, q \in Requests :
        /\ req[p].kind = "logout" /\ req[p].pc = "logout_del" /\ req[p].keys # {}
        /\ req[q].kind = "login" /\ req[q].user.id = req[p].auth.id
        /\ req[q].pc \in {"login_session", "login_cache", "done"}
        /\ RefreshKey(req[q].user.id, req[q].refreshToken) \notin req[p].keys
        /\ isRefreshTokenValid(refreshStore, req[q].user.id, req[q].refreshToken)

\* a request that could revoke a record of user u or deactivate the user
Revokes(r, u) ==
    \/ r.kind = "logout" /\ r.auth.id = u
    \/ r.kind = "deleteUser" /\ r.target = u

\* C5: two refresh calls presenting the same refresh token, which was issued,
\* has not expired, and belongs to a user nobody logs out or deactivates, both
\* answer 200 with an access token once both have returned without a
\* datastore failure, whatever the order of their steps.
C5_ConcurrentRefreshBothSucceed ==
    \A p, q \in Requests :
        (/\ p # q
         /\ req[p].kind = "refresh" /\ req[q].kind = "refresh"
         /\ req[p].token = req[q].token
         /\ req[p].token \in IssuedRefresh
         /\ now < req[p].token.exp
         /\ \A x \in Requests : ~Revokes(req[x], req[p].token.id)
         /\ req[p].pc = "done" /\ req[q].pc = "done"
         /\ ~req[p].fault /\ ~req[q].fault)
        => /\ req[p].status = 200 /\ req[q].status = 200
           /\ verifyAccessToken(req[p].access_token, req[p].access_token.iat)
           /\ verifyAccessToken(req[q].access_token, req[q].access_token.iat)

\* C5 witness: two refresh calls with the same token are in flight together,
\* both past the store check and before the user fetch
C5_Witness ==
    \E p, q \in Requests :
        /\ p # q
        /\ req[p].kind = "refresh" /\ req[q].kind = "refresh"
        /\ req[p].token = req[q].token
        /\ req[p].pc = "refresh_user" /\ req[q].pc = "refresh_user"

\* C6: every step of a refresh call, accepted or rejected, leaves the user
\* rows, the session rows, the refresh token store and the user cache as they
\* were; its response never carries a refresh token; and a token a refresh
\* call accepted is still valid in the store afterwards unless it expired or
\* the user logged out.
C6_RefreshReadOnly ==
    /\ [][\A p \in Requests :
            (req'[p] # req[p] /\ req'[p].kind = "refresh")
            => /\ UNCHANGED <<users, sessions, refreshStore, userCache>>
               /\ req'[p].refresh_token = NoToken
               /\ req'[p].status = 200 => req'[p].access_token.key = "access"]_vars
    /\ [](\A p \in Requests :
            (/\ req[p].kind = "refresh" /\ req[p].status = 200
             /\ now < req[p].token.exp
             /\ \A x \in Requests : req[x].kind # "logout")
            => isRefreshTokenValid(refreshStore, req[p].token.id, req[p].token))

\* C6 witness: the same refresh token was presented twice in sequence, at
\* different times, and accepted both times
C6_Witness ==
    \E p, q \in Requests :
        /\ req[p].kind = "refresh" /\ req[q].kind = "refresh"
        /\ req[p].token = req[q].token
        /\ req[p].status = 200 /\ req[q].status = 200
        /\ req[p].access_token.iat < req[q].access_token.iat
        /\ users # <<>> /\ sessions # <<>> /\ refreshStore # {}

\* the requests that create rows and records: a register whose existence
\* check found nothing, and a login
Creators ==
    {p \in Requests : \/ req[p].kind = "register" /\ req[p].rows = 0
                      \/ req[p].kind = "login"}

\* C7: a register whose existence check finds a row for the email answers 409
\* USER_EXISTS without tokens and goes no further, so every user row, store
\* record and session row was made by another request and no email has two
\* rows; a register that finds none and completes answers 201 with the created
\* user, an access token, a refresh token, token_type Bearer and expires_in 900.
C7_RegisterExistsOrCreates ==
    /\ \A p \in Requests :
         (req[p].kind = "register" /\ req[p].rows > 0)
         => /\ req[p].pc = "done" /\ req[p].status = 409
            /\ req[p].code = "USER_EXISTS"
            /\ req[p].access_token = NoToken /\ req[p].refresh_token = NoToken
            /\ req[p].user = NoUser
            /\ req[p].accessToken = NoToken /\ req[p].refreshToken = NoToken
    /\ \A i, j \in UserIds : users[i].email = users[j].email => i = j
    /\ \A i \in UserIds :
         \E p \in Creators : req[p].kind = "register" /\ req[p].user.id = i
    /\ \A x \in refreshStore :
         \E p \in Creators : x.key = RefreshKey(req[p].user.id, req[p].refreshToken)
    /\ \A k \in 1..Len(sessions) :
         \E p \in Creators : /\ sessions[k].user_id = req[p].user.id
                             /\ sessions[k].refresh_token = req[p].refreshToken
    /\ \A p \in Requests :
         (req[p].kind = "register" /\ req[p].rows = 0 /\ req[p].pc = "done"
          /\ ~req[p].fault)
         => /\ req[p].status = 201
            /\ req[p].data_user.id \in UserIds
            /\ req[p].data_user.email = req[p].email
            /\ users[req[p].data_user.id].email = req[p].email
            /\ req[p].data_user.role = req[p].role
            /\ verifyAccessToken(req[p].access_token, req[p].access_token.iat)
            /\ req[p].access_token.id = req[p].data_user.id
            /\ req[p].refresh_token.key = "refresh"
            /\ req[p].refresh_token.id = req[p].data_user.id
            /\ req[p].token_type = "Bearer"
            /\ req[p].expires_in = 900

\* C7 witness: a register created a user and got its tokens, and a later
\* register with the same email was answered 409
C7_Witness ==
    \E p, q \in Requests :
        /\ req[p].kind = "register" /\ req[p].status = 201
        /\ req[q].kind = "register" /\ req[q].status = 409
        /\ req[q].email = req[p].email
        /\ Len(users) = 1 /\ Len(sessions) = 1 /\ Cardinality(refreshStore) = 1

\* what the caller of a request sees: status line and body
Visible(r) ==
    [status |-> r.status, code |-> r.code, message |-> r.message,
     data_user |-> r.data_user, access_token |-> r.access_token,
     refresh_token |-> r.refresh_token, expires_in |-> r.expires_in,
     token_type |-> r.token_type]

\* C8: a login that reads a row whose is_active is false answers 403
\* ACCOUNT_DISABLED whether the presented password matches the hash or not,
\* signs no token and goes no further; every store record and session row a
\* login made belongs to a login that read an active row and a matching
\* password.
C8_DisabledBeforeSecret ==
    /\ \A p \in Requests :
         (req[p].kind = "login" /\ req[p].rows > 0 /\ ~req[p].user.is_active)
         => /\ req[p].pc = "done"
            /\ Visible(req[p]) = Visible(Reject(Idle, 403, "ACCOUNT_DISABLED",
                                                "Your account has been disabled"))
            /\ req[p].accessToken = NoToken /\ req[p].refreshToken = NoToken
    /\ \A p \in Requests :
         (req[p].kind = "login" /\ req[p].refreshToken # NoToken)
         => /\ req[p].user.is_active
            /\ bcryptCompare(req[p].password, req[p].user.password_hash)

\* C8 witness: a login with the correct password for a deactivated user was
\* answered 403 ACCOUNT_DISABLED
C8_Witness ==
    \E p \in Requests :
        /\ req[p].kind = "login" /\ req[p].status = 403
        /\ req[p].rows = 1 /\ ~users[req[p].user.id].is_active
        /\ bcryptCompare(req[p].password, req[p].user.password_hash)

\* C9: a login for an email without a row and a login for an active user
\* with a password that does not match get the same response: 401,
\* INVALID_CREDENTIALS, "Invalid email or password", no user and no tokens.
C9_InvalidCredentialsMerged ==
    \A p \in Requests :
        (/\ req[p].kind = "login" /\ req[p].pc = "done" /\ ~req[p].fault
         /\ \/ req[p].rows = 0
            \/ /\ req[p].rows > 0 /\ req[p].user.is_active
               /\ ~bcryptCompare(req[p].password, req[p].user.password_hash))
        => Visible(req[p]) = Visible(Reject(Idle, 401, "INVALID_CREDENTIALS",
                                            "Invalid email or password"))

\* C9 witness: one login named an email nobody registered, another the email
\* of an active user with a wrong password, and both got the same response
C9_Witness ==
    \E p, q \in Requests :
        /\ req[p].kind = "login" /\ req[p].pc = "done" /\ req[p].rows = 0
        /\ req[q].kind = "login" /\ req[q].pc = "done" /\ req[q].rows = 1
        /\ req[q].user.is_active
        /\ ~bcryptCompare(req[q].password, req[q].user.password_hash)
        /\ ~req[p].fault /\ ~req[q].fault
        /\ Visible(req[p]) = Visible(req[q])

\* C10: a refresh that returned without a datastore failure reports the first
\* check that failed.  INVALID_TOKEN: the token is not refresh-signed or has
\* expired, and neither the store nor the users table was read.  TOKEN_REVOKED:
\* the token verified, the store check was false, and the users table was not
\* read.  INVALID_USER: the token verified, the store check was true, and the
\* row is absent or inactive.  Otherwise 200.  A tampered token always gets
\* INVALID_TOKEN, a refresh-signed unexpired token never does.
C10_RefreshCheckOrder ==
    \A p \in Requests :
        (req[p].kind = "refresh" /\ req[p].pc = "done" /\ ~req[p].fault)
        => LET r == req[p]
               verified == r.token.key = "refresh"
           IN  /\ r.code \in {"INVALID_TOKEN", "TOKEN_REVOKED", "INVALID_USER", "OK"}
               /\ r.code = "OK" <=> r.status = 200
               /\ r.code # "OK" => r.status = 401 /\ r.access_token = NoToken
               /\ r.code = "INVALID_TOKEN"
                    <=> (r.isValid = "unset" /\ r.storedToken = NoToken /\ r.rows = -1)
               /\ r.code = "INVALID_TOKEN" => (~verified \/ r.token.exp <= now)
               /\ (verified /\ now < r.token.exp) => r.code # "INVALID_TOKEN"
               /\ ~verified => r.code = "INVALID_TOKEN"
               /\ r.code = "TOKEN_REVOKED"
                    <=> (verified /\ r.isValid = "false" /\ r.rows = -1 /\ r.user = NoUser)
               /\ r.isValid # "unset" => (r.isValid = "false" <=> r.storedToken # r.token)
               /\ r.code = "INVALID_USER"
                    <=> (verified /\ r.isValid = "true"
                         /\ (r.rows = 0 \/ ~r.user.is_active))
               /\ r.code = "OK"
                    <=> (verified /\ r.isValid = "true" /\ r.rows = 1 /\ r.user.is_active)

\* C10 witness: a refresh-signed, unexpired token whose record a logout had
\* deleted was answered TOKEN_REVOKED
C10_Witness ==
    \E p, q \in Requests :
        /\ req[p].kind = "refresh" /\ req[p].code = "TOKEN_REVOKED"
        /\ req[p].token.key = "refresh" /\ now < req[p].token.exp
        /\ req[q].kind = "logout" /\ req[q].status = 200
        /\ req[q].token = req[p].token

\* the cache after a whole logout of user u that names token t (or none) and
\* sets all_devices to all, run alone on cache store
LogoutEffect(store, u, t, all) ==
    LET s1 == IF t # NoToken THEN revokeRefreshToken(store, u, t) ELSE store
    IN  IF all THEN Del(s1, Keys(s1, u)) ELSE s1

\* C11: a logout whose bearer token verified and whose cache calls did not
\* throw answers 200 "Logged out successfully", whatever records existed: it
\* is never refused for a missing record.  Run again on the cache it left, the
\* same logout leaves that cache as it is.
C11_LogoutAlwaysSucceeds ==
    /\ \A p \in Requests :
         (req[p].kind = "logout" /\ req[p].pc = "done" /\ ~req[p].fault)
         => /\ req[p].status \in {200, 401}
            /\ req[p].status = 401
                 => (req[p].auth.key # "access" \/ req[p].auth.exp <= now)
            /\ req[p].status = 200
                 => /\ req[p].code = "OK"
                    /\ req[p].message = "Logged out successfully"
    /\ \A u \in UserIds, t \in KnownRefresh \cup {NoToken}, all \in BOOLEAN :
         LET once == LogoutEffect(refreshStore, u, t, all)
         IN  /\ LogoutEffect(once, u, t, all) = once
             /\ all => Keys(once, u) = {}
             /\ t # NoToken => ~isRefreshTokenValid(once, u, t)

\* C11 witness: the same logout, naming the same refresh token, was made twice;
\* the second found no record to delete and was answered 200 like the first
C11_Witness ==
    \E p, q \in Requests :
        /\ p < q
        /\ req[p].kind = "logout" /\ req[q].kind = "logout"
        /\ req[p].auth = req[q].auth /\ req[p].token = req[q].token
        /\ req[p].token # NoToken
        /\ req[p].status = 200 /\ req[q].status = 200
        /\ refreshStore = {}

\* C12: a register or login that is past its storeRefreshToken call, and in
\* particular one that answered 2xx with refresh token t for user u, has
\* written the record (u, t): unless t has expired or u has logged out, the
\* record is in the cache and valid, and a refresh presenting t that returned
\* without a datastore failure, u not having been deactivated, answered 200.
C12_StoreBeforeSuccess ==
    \A p \in Requests :
        (/\ req[p].kind \in {"register", "login"}
         /\ \/ req[p].pc \in {"register_session", "login_session", "login_cache"}
            \/ req[p].status \in {200, 201}
         /\ now < req[p].refreshToken.exp
         /\ \A x \in Requests : ~(req[x].kind = "logout" /\ req[x].auth.id = req[p].user.id))
        => /\ req[p].refreshToken.key = "refresh"
           /\ req[p].status \in {200, 201} => req[p].refresh_token = req[p].refreshToken
           /\ HasRecord(refreshStore, req[p].user.id, req[p].refreshToken)
           /\ isRefreshTokenValid(refreshStore, req[p].user.id, req[p].refreshToken)
           /\ \A q \in Requests :
                (/\ req[q].kind = "refresh" /\ req[q].token = req[p].refreshToken
                 /\ req[q].pc = "done" /\ ~req[q].fault
                 /\ \A x \in Requests : req[x].kind # "deleteUser")
                => req[q].status = 200

\* C12 witness: a login answered 200 with a refresh token, and a refresh
\* presenting that token afterwards answered 200
C12_Witness ==
    \E p, q \in Requests :
        /\ req[p].kind = "login" /\ req[p].status = 200
        /\ req[q].kind = "refresh" /\ req[q].token = req[p].refresh_token
        /\ req[q].status = 200
        /\ isRefreshTokenValid(refreshStore, req[p].user.id, req[p].refresh_token)

\* the session table holds a row for user u and refresh token t
HasSession(u, t) ==
    \E k \in 1..Len(sessions) :
        sessions[k].user_id = u /\ sessions[k].refresh_token = t

\* C13: a register or login in which a call inside the try block threw, the
\* session insert after a successful cache write included, answers 500 without an
\* access token, a refresh token or a user; every response that carries
\* tokens belongs to a flow whose session row is in the table.
C13_FailClosed ==
    \A p \in Requests :
        req[p].kind \in {"register", "login"}
        => /\ (req[p].fault /\ ~req[p].unhandled)
                => /\ req[p].pc = "done" /\ req[p].status = 500
                   /\ req[p].code \in {"REGISTRATION_FAILED", "LOGIN_FAILED"}
                   /\ req[p].access_token = NoToken /\ req[p].refresh_token = NoToken
                   /\ req[p].data_user = Idle.data_user
           /\ (req[p].access_token # NoToken \/ req[p].refresh_token # NoToken)
                => /\ req[p].status \in {200, 201}
                   /\ HasSession(req[p].user.id, req[p].refresh_token)

\* C13 witness: a register wrote its refresh record, its session insert
\* failed, and it answered 500 without tokens
C13_Witness ==
    \E p \in Requests :
        /\ req[p].kind = "register" /\ req[p].fault /\ req[p].status = 500
        /\ HasRecord(refreshStore, req[p].user.id, req[p].refreshToken)
        /\ ~HasSession(req[p].user.id, req[p].refreshToken)
        /\ req[p].access_token = NoToken /\ req[p].refresh_token = NoToken

\* C14: once a register has inserted its user row, the row stays, whatever
\* fails afterwards: the table holds a row with the request's email and id,
\* so a register for that email that reads the table afterwards answers 409,
\* and a login with the same credentials is not answered "invalid credentials".
C14_NoRollback ==
    \A p \in Requests :
        (req[p].kind = "register" /\ req[p].user # NoUser)
        => /\ req[p].user.id \in UserIds
           /\ users[req[p].user.id].email = req[p].email
           /\ users[req[p].user.id].password_hash = bcryptHash(req[p].password)
           /\ \A q \in Requests :
                (q > p /\ req[p].pc = "done" /\ req[q].email = req[p].email
                 /\ req[q].pc = "done" /\ ~req[q].fault)
                => /\ req[q].kind = "register" => req[q].status = 409
                   /\ (req[q].kind = "login" /\ req[q].password = req[p].password
                       /\ req[q].user.is_active) => req[q].status = 200

\* C14 witness: a register failed after its user insert, a second register
\* with the same email was answered 409, and a login with the same
\* credentials succeeded
C14_Witness ==
    \E p, q, l \in Requests :
        /\ req[p].kind = "register" /\ req[p].fault /\ req[p].user # NoUser
        /\ req[q].kind = "register" /\ req[q].email = req[p].email
        /\ req[q].status = 409
        /\ req[l].kind = "login" /\ req[l].email = req[p].email
        /\ req[l].status = 200

\* C15: a login that read an active row and a matching password has, once
\* it is over, signed its tokens and written its refresh record, whether
\* or not the update of last_login succeeded.
C15_LastLoginBestEffort ==
    \A p \in Requests :
        (/\ req[p].kind = "login" /\ req[p].pc = "done"
         /\ req[p].rows > 0 /\ req[p].user.is_active
         /\ bcryptCompare(req[p].password, req[p].user.password_hash))
        => /\ req[p].accessToken # NoToken
           /\ req[p].refreshToken # NoToken

\* the login whose last_login update threw: it passed both checks, signed
\* nothing and answered 500 LOGIN_FAILED
C15_UpdateFailureAborts ==
    \E p \in Requests :
        /\ req[p].kind = "login" /\ req[p].pc = "done" /\ req[p].fault
        /\ req[p].rows > 0 /\ req[p].user.is_active
        /\ bcryptCompare(req[p].password, req[p].user.password_hash)
        /\ req[p].accessToken = NoToken
        /\ req[p].status = 500 /\ req[p].code = "LOGIN_FAILED"
        /\ users[req[p].user.id].last_login = -1

\* the user whose stored fields request r changes
Mutated(r) ==
    IF r.kind \in {"updateUserRole", "deleteUser"} THEN r.target
    ELSE IF r.kind = "login" THEN r.user.id
    ELSE r.auth.id

\* C16: when updateMe, updateUserRole, deleteUser or login (which writes
\* last_login) answers 200, the cache holds no entry user:{id} for the user
\* whose row the request changed.
C16_InvalidateOnWrite ==
    [][\A p \in Requests :
         (/\ req[p].pc # "done" /\ req'[p].pc = "done"
          /\ req'[p].status = 200
          /\ req'[p].kind \in {"updateMe", "updateUserRole", "deleteUser", "login"})
         => getCachedUserData(userCache', Mutated(req'[p])) = NoToken]_vars

\* a login and an updateMe of the same user have both answered 200, and the
\* cache entry login wrote still holds the first name the update replaced
C16_LoginLeavesStaleEntry ==
    \E p, q \in Requests :
        /\ req[p].kind = "login" /\ req[p].status = 200
        /\ req[q].kind = "updateMe" /\ req[q].status = 200
        /\ req[q].auth.id = req[p].user.id
        /\ getCachedUserData(userCache, req[p].user.id) # NoToken
        /\ getCachedUserData(userCache, req[p].user.id).first_name
              # users[req[p].user.id].first_name

\* the requests whose bearer token authenticate has to verify
Authenticated == {"logout", "deleteUser", "getMe", "updateMe", "updateUserRole"}

\* C17: for every user row, the refresh token signed now verifies as a
\* refresh token exactly until its 7 days are over, carries the user's id,
\* type 'refresh', no email and no role, and never verifies as an access
\* token; the access token signed now never verifies as a refresh token.  A
\* refresh request that got past verification presented an issued refresh
\* token; one that presented an access token was answered INVALID_TOKEN; a
\* request that sent a refresh token as bearer was answered 401 INVALID_TOKEN.
C17_SigningDomains ==
    /\ \A u \in UserIds :
         LET r == generateRefreshToken(UserRow(u), now)
             a == generateAccessToken(UserRow(u), now)
         IN  /\ verifyRefreshToken(r, now)
             /\ \A d \in TickSteps :
                  /\ verifyRefreshToken(r, now + d) <=> d < JWT_REFRESH_EXPIRY
                  /\ ~verifyAccessToken(r, now + d)
                  /\ ~verifyRefreshToken(a, now + d)
             /\ r.id = u /\ r.type = "refresh" /\ r.email = "" /\ r.role = ""
             /\ ~verifyAccessToken(r, now) /\ ~verifyRefreshToken(a, now)
             /\ verifyAccessToken(a, now)
    /\ \A p \in Requests :
         /\ (req[p].kind = "refresh" /\ req[p].isValid # "unset")
              => (req[p].token \in IssuedRefresh /\ req[p].token.type = "refresh")
         /\ (req[p].kind = "refresh" /\ req[p].token.key = "access")
              => (req[p].pc = "done" /\ req[p].code = "INVALID_TOKEN")
         /\ (req[p].kind \in Authenticated /\ req[p].auth.key = "refresh")
              => (req[p].pc = "done" /\ req[p].status = 401
                  /\ req[p].code = "INVALID_TOKEN")

\* C17 witness: an unexpired access token was presented to refresh and
\* answered INVALID_TOKEN, and an unexpired refresh token was sent as bearer
\* of a logout and answered 401
C17_Witness ==
    \E p, q \in Requests :
        /\ req[p].kind = "refresh" /\ req[p].token.key = "access"
        /\ now < req[p].token.exp /\ req[p].code = "INVALID_TOKEN"
        /\ req[q].kind = "logout" /\ req[q].auth.key = "refresh"
        /\ now < req[q].auth.exp /\ req[q].status = 401

\* strings that are not an access token of this service, made from token a
BadTokens(a) == {Tamper(a), WrongIssuer(a), WrongAudience(a), NoToken}

\* C18: an access token that was issued verifies at every instant before its
\* exp and at none from exp on; whatever makes verification fail (signature,
\* shape, issuer, audience, expiry), verifyAccessToken throws the same error,
\* and authenticate answers a request that sent a bearer token with the same
\* 401 INVALID_TOKEN response.
C18_VerifyAccessUntilExpiry ==
    /\ \A a \in {x \in Issued : x.key = "access"} :
         /\ \A t \in {a.iat, a.exp - 1, now} :
              t < a.exp => /\ verifyAccessToken(a, t)
                           /\ verifyAccessTokenError(a, t) = "ok"
         /\ \A t \in {a.exp, a.exp + 1, a.exp + JWT_REFRESH_EXPIRY, now} :
              t >= a.exp => /\ ~verifyAccessToken(a, t)
                            /\ verifyAccessTokenError(a, t)
                                 = "Invalid or expired access token"
         /\ \A b \in BadTokens(a), t \in {a.iat, a.exp} :
              /\ ~verifyAccessToken(b, t)
              /\ verifyAccessTokenError(b, t) = verifyAccessTokenError(a, a.exp)
    /\ \A t \in IssuedRefresh :
         verifyAccessTokenError(t, now) = "Invalid or expired access token"
    /\ \A p \in Requests :
         (req[p].kind \in Authenticated /\ req[p].pc = "done"
          /\ req[p].header = "Bearer")
         => /\ req[p].status = 401
                 => /\ Visible(req[p]) = Visible(Reject(Idle, 401, "INVALID_TOKEN",
                                                        "Invalid or expired token"))
                    /\ (req[p].auth.key # "access" \/ req[p].auth.exp <= now)
            /\ (req[p].auth.key = "access" /\ now < req[p].auth.exp)
                 => req[p].status # 401

\* C18 witness: one request sent an access token after its expiry, another a
\* token signed with the other secret, and both got the same 401 response
C18_Witness ==
    \E p, q \in Requests :
        /\ req[p].kind \in Authenticated /\ req[q].kind \in Authenticated
        /\ req[p].auth.key = "access" /\ req[p].auth.exp <= now
        /\ req[q].auth.key = "refresh" /\ now < req[q].auth.exp
        /\ req[p].status = 401 /\ req[q].status = 401
        /\ Visible(req[p]) = Visible(req[q])

\* C19: a request whose bearer token is an access token that has not expired
\* is never answered 401, and one whose token says admin is never answered
\* 403, whatever the refresh store, the cache and the user's row say by
\* then: logged out, refresh records deleted, role changed, deactivated.
C19_AccessTokensStateless ==
    \A p \in Requests :
        (/\ req[p].kind \in Authenticated
         /\ req[p].auth.key = "access" /\ now < req[p].auth.exp)
        => /\ req[p].status # 401
           /\ req[p].code \notin {"INVALID_TOKEN", "UNAUTHORIZED"}
           /\ (req[p].kind \in {"deleteUser", "updateUserRole"}
               /\ req[p].auth.role = "admin") => req[p].status # 403
           /\ verifyAccessToken(req[p].auth, now)

\* C19 witness: the administrator deactivated their own account, and a getMe
\* with the same access token afterwards read the inactive row and was
\* answered 200
C19_Witness ==
    \E p, q \in Requests :
        /\ req[p].kind = "deleteUser" /\ req[p].status = 200
        /\ req[p].target = req[p].auth.id
        /\ req[q].kind = "getMe" /\ req[q].auth = req[p].auth
        /\ req[q].status = 200
        /\ req[q].data = FullRow(req[p].target)
        /\ ~req[q].data.is_active
        /\ now < req[q].auth.exp

\* C20: every session row is as its INSERT wrote it, revoked_at unset, and
\* every register or login that answered 2xx still has its row, whatever
\* logouts have run and whatever records the cache has lost since.
C20_SessionsUntouchedByRevocation ==
    /\ \A k \in 1..Len(sessions) :
         /\ sessions[k].revoked_at = -1
         /\ sessions[k] = SessionRow(sessions[k].user_id, sessions[k].refresh_token,
                                     sessions[k].refresh_token.iat)
    /\ \A p \in Requests :
         (req[p].kind \in {"register", "login"} /\ req[p].status \in {200, 201})
         => \E k \in 1..Len(sessions) :
               sessions[k] = SessionRow(req[p].user.id, req[p].refresh_token,
                                        req[p].refresh_token.iat)

\* C20 witness: a logout deleted the record of an unexpired refresh token, and
\* the session row of that token is still there, not marked revoked
C20_Witness ==
    \E p \in Requests, k \in 1..Len(sessions) :
        /\ req[p].kind = "logout" /\ req[p].status = 200
        /\ sessions[k].user_id = req[p].auth.id
        /\ sessions[k].revoked_at = -1
        /\ now < sessions[k].expires_at
        /\ ~HasRecord(refreshStore, sessions[k].user_id, sessions[k].refresh_token)
        /\ (req[p].token = sessions[k].refresh_token \/ req[p].all_devices)

\* the register and login requests that signed refresh token t for user u
SignedBy(u, t) ==
    {p \in Requests : /\ req[p].kind \in {"register", "login"}
                      /\ req[p].user.id = u /\ req[p].refreshToken = t}

\* the session rows of user u and refresh token t
RowsOf(u, t) ==
    {k \in 1..Len(sessions) :
        sessions[k].user_id = u /\ sessions[k].refresh_token = t}

\* C21: the session rows of a user and a refresh token are at least as many
\* as the register and login requests that answered 2xx with that token and
\* at most as many as the requests that signed it; while no datastore call
\* has failed, the table has exactly one row per register or login that
\* answered 2xx or is past its insert.  Every row has the fingerprint of its
\* token, and a request answered 409, 401 or 403 signed no token.
C21_OneSessionPerSuccess ==
    /\ \A k \in 1..Len(sessions) :
         /\ sessions[k].token_hash = generateTokenHash(sessions[k].refresh_token)
         /\ SignedBy(sessions[k].user_id, sessions[k].refresh_token) # {}
    /\ \A p \in Requests :
         req[p].kind \in {"register", "login"}
         => /\ req[p].status \in {200, 201}
                 => /\ req[p].refresh_token = req[p].refreshToken
                    /\ req[p].data_user.id = req[p].user.id
                    /\ RowsOf(req[p].user.id, req[p].refresh_token) # {}
            /\ req[p].status \in {401, 403, 409} => req[p].refreshToken = NoToken
            /\ req[p].refreshToken # NoToken
                 => LET u == req[p].user.id
                        t == req[p].refreshToken
                    IN  /\ Cardinality({q \in SignedBy(u, t) : req[q].status \in {200, 201}})
                             <= Cardinality(RowsOf(u, t))
                        /\ Cardinality(RowsOf(u, t)) <= Cardinality(SignedBy(u, t))
    /\ Faults = 0
         => Len(sessions) =
               Cardinality({p \in Requests :
                              /\ req[p].kind \in {"register", "login"}
                              /\ \/ req[p].status \in {200, 201}
                                 \/ req[p].pc = "login_cache"})

\* C21 witness: a register and a login succeeded and a second login was
\* rejected; the table has the two rows of the two successes
C21_Witness ==
    \E p, q, l \in Requests :
        /\ req[p].kind = "register" /\ req[p].status = 201
        /\ req[q].kind = "login" /\ req[q].status = 200
        /\ req[l].kind = "login" /\ req[l].status = 401
        /\ Len(sessions) = 2
        /\ sessions[1].token_hash = generateTokenHash(req[p].refresh_token)
        /\ sessions[2].token_hash = generateTokenHash(req[q].refresh_token)

\* C22: a refresh in which a datastore call threw answers 500
\* REFRESH_FAILED, never TOKEN_REVOKED, INVALID_TOKEN or INVALID_USER; a
\* refresh answered TOKEN_REVOKED read the cache and found no record holding
\* the token.
C22_CacheFailureIsNotRevocation ==
    \A p \in Requests :
        req[p].kind = "refresh"
        => /\ req[p].fault
                => /\ req[p].pc = "done" /\ req[p].status = 500
                   /\ req[p].code = "REFRESH_FAILED"
                   /\ req[p].message = "Failed to refresh token"
                   /\ req[p].access_token = NoToken
           /\ req[p].code \in {"TOKEN_REVOKED", "INVALID_TOKEN", "INVALID_USER"}
                => (~req[p].fault /\ req[p].status = 401)
           /\ req[p].code = "TOKEN_REVOKED"
                => (req[p].isValid = "false" /\ req[p].storedToken # req[p].token)

\* C22 witness: the cache call of a refresh failed while the cache held the
\* record of the presented token, and the refresh answered REFRESH_FAILED
C22_Witness ==
    \E p \in Requests :
        /\ req[p].kind = "refresh" /\ req[p].fault
        /\ req[p].isValid = "unset" /\ req[p].token.key = "refresh"
        /\ HasRecord(refreshStore, req[p].token.id, req[p].token)
        /\ req[p].code = "REFRESH_FAILED"

\* C23: every register, login, refresh or logout that is over sent a response,
\* and one in which a call failed, the acquisition of the database client
\* included, sent the 500 response of its catch block; no handler ends with
\* a rejection that nothing caught.
C23_EveryFaultAnswered ==
    \A p \in Requests :
        (req[p].pc = "done" /\ req[p].kind \in {"register", "login", "refresh", "logout"})
        => /\ req[p].status # 0
           /\ ~req[p].unhandled
           /\ req[p].fault => req[p].status = 500

\* C23 divergence: db.pool.connect() of a register or login rejected; the
\* handler is over, nothing caught the rejection and no response was sent
C23_UnhandledConnectFailure ==
    \E p \in Requests :
        /\ req[p].kind \in {"register", "login"} /\ req[p].pc = "done"
        /\ req[p].unhandled /\ req[p].fault
        /\ req[p].client = "none" /\ req[p].status = 0 /\ req[p].code = ""

\* the positions at which the call a handler awaits next is a cache call
CacheAwait ==
    {"register_store", "login_store", "login_cache", "refresh_check",
     "logout_revoke", "logout_keys", "logout_del", "getme_cached", "getme_cache",
     "updateme_invalidate", "role_invalidate", "delete_invalidate"}

\* C24: no handler awaits a cache call while it holds a client checked out
\* of the database pool; register and login have released theirs before the
\* refresh-store write and before the user-cache write.
C24_NoClientAcrossCacheAwait ==
    \A p \in Requests : req[p].pc \in CacheAwait => req[p].client # "held"

\* C24 divergence: a login wrote its refresh record and its session row and
\* awaits the user-cache write, its client still checked out
C24_HeldAcrossCacheAwait ==
    \E p \in Requests :
        /\ req[p].kind = "login" /\ req[p].pc = "login_cache"
        /\ req[p].client = "held" /\ req[p].releases = 0
        /\ HasRecord(refreshStore, req[p].user.id, req[p].refreshToken)

\* C25: a register or login that acquired a client holds it while it runs
\* and has released it exactly once when it is over, whether it answered
\* 201 / 200, 409, 401, 403 or the 500 of its catch block; a request that
\* acquired no client releases none.
C25_ClientReleasedOnce ==
    \A p \in Requests :
        LET r == req[p] IN
        /\ r.kind \in {"register", "login"}
            => /\ r.unhandled => (r.client = "none" /\ r.releases = 0)
               /\ r.pc # "done" => (r.client = "held" /\ r.releases = 0)
               /\ (r.pc = "done" /\ ~r.unhandled)
                    => (r.client = "released" /\ r.releases = 1 /\ r.status # 0)
        /\ r.kind \notin {"register", "login"} => (r.client = "none" /\ r.releases = 0)

\* C25 witness: a register answered 201, a login was rejected with 401 and a
\* third handler ended in its catch block; each released its client once
C25_Witness ==
    \E p, q, l \in Requests :
        /\ req[p].kind = "register" /\ req[p].status = 201 /\ req[p].releases = 1
        /\ req[q].kind = "login" /\ req[q].status = 401 /\ req[q].releases = 1
        /\ req[l].kind \in {"register", "login"} /\ req[l].fault
        /\ req[l].status = 500 /\ req[l].releases = 1 /\ req[l].client = "released"

\* one step of getMe number p, as C26 has it
GetMeStep(p) ==
    LET a == req[p]
        b == req'[p]
        id == a.auth.id
    IN  /\ (a.pc = "getme_cached" /\ b # a /\ ~b.fault
             /\ getCachedUserData(userCache, id) = NoToken)
                => (b.pc = "getme_select" /\ b.status = 0)
        /\ (a.pc = "getme_select" /\ b # a /\ ~b.fault)
                => IF id \in UserIds
                   THEN b.pc = "getme_cache" /\ b.status = 0 /\ b.data = FullRow(id)
                   ELSE b.status = 404 /\ b.code = "USER_NOT_FOUND"
        /\ (a.pc = "getme_cache" /\ b # a /\ ~b.fault)
                => /\ b.status = 200 /\ b.data = a.data
                   /\ getCachedUserData(userCache', id) = a.data
        /\ (b.kind = "getMe" /\ b.code = "USER_NOT_FOUND" /\ a.code = "")
                => (a.pc = "getme_select" /\ id \notin UserIds)

\* C26: a getMe that finds no cache entry goes on to read the users table;
\* when the row exists it caches the row and answers 200 with it, and it
\* answers 404 USER_NOT_FOUND only after a SELECT that found no row.
C26_MissFallsBackToStore == [][\A p \in Requests : GetMeStep(p)]_vars

\* C26 witness: a getMe missed the cache, read the row, answered with it, and
\* the cache now holds what it answered
C26_Witness ==
    \E p \in Requests :
        /\ req[p].kind = "getMe" /\ req[p].status = 200
        /\ req[p].cached = NoToken /\ req[p].rows = 1
        /\ req[p].data.id = req[p].auth.id
        /\ getCachedUserData(userCache, req[p].auth.id) = req[p].data

\* C27: the ttl register and login pass to storeRefreshToken is the lifetime
\* generateRefreshToken signs into the token, 604800 s, so every record in the
\* cache expires at the exp of the token it holds.  An issued refresh token
\* verifies, and its record is readable, exactly at the instants before its
\* exp; a refresh answered with an access token presented a token that had
\* not expired; while nobody logs the user out or deactivates the user, the
\* record of an issued token is there until the token's exp, and a refresh
\* answered TOKEN_REVOKED follows such a request.
C27_RecordLivesAsLongAsToken ==
    /\ REFRESH_TTL = JWT_REFRESH_EXPIRY /\ REFRESH_TTL = 7 * 24 * 60 * 60
    /\ \A r \in refreshStore :
          /\ r.exp = r.value.exp
          /\ r.value.exp = r.value.iat + JWT_REFRESH_EXPIRY
    /\ \A t \in IssuedRefresh :
          LET put == storeRefreshToken({}, t.id, t, REFRESH_TTL, t.iat)
          IN  /\ \A time \in {t.iat, t.exp - 1, t.exp, t.exp + 1, now} :
                    /\ verifyRefreshToken(t, time) <=> time < t.exp
                    /\ isRefreshTokenValid(Expire(put, time), t.id, t) <=> time < t.exp
              /\ (now < t.exp /\ \A x \in Requests : ~Revokes(req[x], t.id))
                    => HasRecord(refreshStore, t.id, t)
    /\ \A p \in Requests :
          req[p].kind = "refresh"
          => /\ req[p].status = 200 => req[p].access_token.iat < req[p].token.exp
             /\ req[p].code = "TOKEN_REVOKED"
                   => \E x \in Requests : Revokes(req[x], req[p].token.id)

\* C27 witness: seven days after a refresh token was issued, with no logout
\* and no deactivation, its record is gone and a refresh presenting it is
\* answered INVALID_TOKEN
C27_Witness ==
    \E p \in Requests :
        /\ req[p].kind = "refresh" /\ req[p].token \in IssuedRefresh
        /\ now = req[p].token.exp
        /\ \A x \in Requests : ~Revokes(req[x], req[p].token.id)
        /\ ~HasRecord(refreshStore, req[p].token.id, req[p].token)
        /\ req[p].status = 401 /\ req[p].code = "INVALID_TOKEN"

\* the two 401 responses of authenticate
NoTokenProvided == Visible(Reject(Idle, 401, "UNAUTHORIZED", "No token provided"))
InvalidToken == Visible(Reject(Idle, 401, "INVALID_TOKEN", "Invalid or expired token"))

\* C28: authenticate calls next exactly when the Authorization header starts
\* with 'Bearer ' and the rest verifies as an access token, and req.user is
\* then the verified token's claims; without a header, or with one of another
\* scheme, it answers 401 UNAUTHORIZED 'No token provided'; with a bearer
\* token that does not verify it answers 401 INVALID_TOKEN; in both cases
\* next is not called, req.user stays unset and the handler does not run.
C28_AuthenticateGate ==
    /\ \A h \in AuthHeaders
                \cup {[scheme |-> "Bearer", token |-> b] :
                         b \in UNION {BadTokens(a) : a \in Issued}} :
          LET r == authenticate(Idle, h, now)
              good == h.scheme = "Bearer" /\ verifyAccessToken(h.token, now)
          IN  /\ r.next = 1 <=> good
              /\ good => (r.reqUser = h.token /\ r.pc # "done" /\ r.status = 0)
              /\ ~good => (r.next = 0 /\ r.reqUser = NoToken /\ r.pc = "done")
              /\ h.scheme # "Bearer" => Visible(r) = NoTokenProvided
              /\ (h.scheme = "Bearer" /\ ~good) => Visible(r) = InvalidToken
    /\ \A p \in Requests :
          LET r == req[p] IN
          r.kind \in Authenticated
          => /\ r.next >= 1 <=> r.reqUser # NoToken
             /\ r.reqUser # NoToken
                  => (r.header = "Bearer" /\ r.reqUser = r.auth /\ r.auth.key = "access")
             /\ r.header \in {"absent", "Basic"}
                  => (Visible(r) = NoTokenProvided /\ r.auth = NoToken)
             /\ r.next = 0
                  => /\ r.pc = "done" /\ r.status = 401
                     /\ r.header = "Bearer" => Visible(r) = InvalidToken
                     /\ r.rows = -1 /\ r.keys = {} /\ r.cached = NoToken
                     /\ r.token = NoToken /\ ~r.fault
             /\ r.code \in {"UNAUTHORIZED", "INVALID_TOKEN"} => r.next = 0

\* C28 witness: one request came without an Authorization header and was
\* answered UNAUTHORIZED; another sent a valid bearer token and its handler
\* ran with req.user set to the token's claims
C28_Witness ==
    \E p, q \in Requests :
        /\ req[p].kind \in Authenticated /\ req[p].header = "absent"
        /\ req[p].code = "UNAUTHORIZED" /\ req[p].next = 0
        /\ req[q].kind \in Authenticated /\ req[q].header = "Bearer"
        /\ req[q].next >= 1 /\ req[q].reqUser = req[q].auth
        /\ req[q].status = 200

\* the two refusals of authorize
AuthenticationRequired ==
    Visible(Reject(Idle, 401, "UNAUTHORIZED", "Authentication required"))
Forbidden == Visible(Reject(Idle, 403, "FORBIDDEN", "Insufficient permissions"))

\* C29: authorize(roles) calls next exactly when req.user is set and its role
\* is one of the roles; it answers 401 UNAUTHORIZED when req.user is unset and
\* 403 FORBIDDEN when the role is not allowed, without calling next.  So a
\* deleteUser or updateUserRole that got as far as its handler carried an
\* access token whose role is admin, and one whose token says anything else
\* was answered 403 before the handler ran.
C29_AuthorizeGate ==
    /\ \A u \in {NoToken} \cup {a \in Issued : a.key = "access"},
          allowed \in {{"admin"}, {"admin", "gym_owner", "trainer"}, Roles} :
          LET r == authorize([Idle EXCEPT !.reqUser = u], allowed)
              ok == u # NoToken /\ u.role \in allowed
          IN  /\ r.next = 1 <=> ok
              /\ ok => (r.pc # "done" /\ r.status = 0)
              /\ ~ok => (r.next = 0 /\ r.pc = "done")
              /\ u = NoToken => Visible(r) = AuthenticationRequired
              /\ (u # NoToken /\ ~ok) => Visible(r) = Forbidden
    /\ \A p \in Requests :
          LET r == req[p] IN
          r.kind \in {"deleteUser", "updateUserRole"}
          => /\ r.next = 2 <=> (r.reqUser # NoToken /\ r.reqUser.role = "admin")
             /\ (r.reqUser # NoToken /\ r.reqUser.role # "admin")
                  => /\ r.pc = "done" /\ Visible(r) = Forbidden
                     /\ r.next = 1 /\ ~r.fault /\ r.rows = -1
             /\ r.next < 2 => (r.pc = "done" /\ r.status \in {401, 403})
             /\ (r.pc # "done" \/ r.status \notin {401, 403})
                  => /\ r.next = 2 /\ r.auth.key = "access"
                     /\ r.auth.role = "admin" /\ r.reqUser = r.auth

\* C29 witness: a client's deleteUser or updateUserRole aimed at the
\* administrator was answered 403 FORBIDDEN, and the administrator's row is
\* as it was
C29_Witness ==
    \E p \in Requests :
        /\ req[p].kind \in {"deleteUser", "updateUserRole"}
        /\ req[p].reqUser.role = "client" /\ req[p].next = 1
        /\ req[p].code = "FORBIDDEN" /\ req[p].status = 403
        /\ req[p].target = AdminUser.id
        /\ users[AdminUser.id].is_active /\ users[AdminUser.id].role = "admin"

\* one step of logout number p, as C30 has it
LogoutStep(p) ==
    LET a == req[p]
        b == req'[p]
    IN  (b # a /\ b.kind = "logout")
        => /\ (a.pc = "idle" /\ b.next = 1 /\ b.token # NoToken)
                => b.pc = "logout_revoke"
           /\ (a.pc = "logout_revoke" /\ ~b.fault)
                => /\ ~HasRecord(refreshStore', a.auth.id, a.token)
                   /\ a.all_devices => b.pc = "logout_keys"
           /\ b.fault
                => /\ a.pc \in {"logout_revoke", "logout_keys", "logout_del"}
                   /\ b.pc = "done"
                   /\ Visible(b) = Visible(Catch(Idle, "LOGOUT_FAILED",
                                                 "Failed to logout"))
                   /\ refreshStore' = refreshStore
           /\ b.status = 200 => ~b.fault

\* C30: a logout in which a revocation call throws answers 500
\* LOGOUT_FAILED, never 200.  A logout that names a token revokes it before
\* anything else, and goes on to revokeAllUserTokens only after that; the
\* step in which a call throws leaves the refresh store as it is, so the
\* named record stays deleted when the scan or the delete of
\* revokeAllUserTokens throws.
C30_LogoutFailureKeepsNamedRevocation == [][\A p \in Requests : LogoutStep(p)]_vars

\* C30 witness: a logout named one of the caller's two live refresh tokens
\* and set all_devices; the named record is gone, the other record is still
\* there, and the logout answered LOGOUT_FAILED
C30_Witness ==
    \E p \in Requests :
        /\ req[p].kind = "logout" /\ req[p].fault
        /\ req[p].status = 500 /\ req[p].code = "LOGOUT_FAILED"
        /\ req[p].all_devices
        /\ req[p].token \in IssuedRefresh /\ req[p].token.id = req[p].auth.id
        /\ now < req[p].token.exp
        /\ ~HasRecord(refreshStore, req[p].auth.id, req[p].token)
        /\ Keys(refreshStore, req[p].auth.id) # {}

\* C31: the access token a refresh answers with is signed from the row its
\* SELECT reads at that moment: id, email and role are those of the users
\* table then, whatever they were when the refresh token was issued, and a
\* refresh token carries neither email nor role.
C31_RefreshSignsCurrentRow ==
    [][\A p \in Requests :
          (req[p].pc = "refresh_user" /\ req'[p].status = 200)
          => LET id == req[p].token.id
                 t == req'[p].access_token
             IN  /\ id \in UserIds
                 /\ t = generateAccessToken(UserRow(id), now)
                 /\ t.id = id /\ t.email = users[id].email
                 /\ t.role = users[id].role /\ t.iat = now
                 /\ req[p].token.email = "" /\ req[p].token.role = ""]_vars

\* C31 witness: the administrator's role was changed to client after the
\* refresh token was issued, and a refresh presenting that token was
\* answered with an access token that says client
C31_Witness ==
    \E p, q, x \in Requests :
        /\ req[p].kind = "register" /\ req[p].status = 201
        /\ req[p].access_token.role = "admin"
        /\ req[x].kind = "updateUserRole" /\ req[x].status = 200
        /\ req[x].target = req[p].user.id /\ req[x].role = "client"
        /\ req[q].kind = "refresh" /\ req[q].status = 200
        /\ req[q].token = req[p].refresh_token
        /\ req[q].access_token.role = "client"
        /\ req[q].access_token.id = req[p].user.id

\* one step of request p while the row of user u says is_active = false
DeactivatedStep(p, u) ==
    LET a == req[p]
        b == req'[p]
    IN  b # a
        => /\ (a.pc = "refresh_user" /\ a.token.id = u /\ ~b.fault)
                => Visible(b) = Visible(Reject(Idle, 401, "INVALID_USER",
                                               "User not found or inactive"))
           /\ (a.pc = "login_select" /\ a.email = users[u].email /\ ~b.fault)
                => Visible(b) = Visible(Reject(Idle, 403, "ACCOUNT_DISABLED",
                                               "Your account has been disabled"))

\* C32: a deleteUser that answers 200 has set is_active = false in the row
\* of its target and has deleted no refresh record; a row that is inactive
\* stays inactive; and while it is, every refresh that gets to its user
\* lookup for that user is answered 401 INVALID_USER and every login that
\* reads the row is answered 403 ACCOUNT_DISABLED, whichever records the
\* refresh store holds.
C32_DeactivatedStaysOut ==
    [][/\ \A u \in UserIds :
             ~users[u].is_active
             => /\ ~users'[u].is_active
                /\ \A p \in Requests : DeactivatedStep(p, u)
       /\ \A p \in Requests :
             (req'[p] # req[p] /\ req'[p].kind = "deleteUser")
             => /\ refreshStore' = refreshStore
                /\ (req'[p].pc = "done" /\ req'[p].status = 200)
                     => ~users'[req'[p].target].is_active]_vars

\* C32 witness: after a deleteUser of the user was answered 200, a refresh
\* presenting the user's refresh token, whose record is still in the store,
\* was answered INVALID_USER
C32_Witness ==
    \E d, p \in Requests :
        /\ req[d].kind = "deleteUser" /\ req[d].status = 200
        /\ req[p].kind = "refresh" /\ req[p].token.id = req[d].target
        /\ req[p].isValid = "true" /\ req[p].rows = 1
        /\ req[p].status = 401 /\ req[p].code = "INVALID_USER"
        /\ req[p].access_token = NoToken
        /\ HasRecord(refreshStore, req[p].token.id, req[p].token)

\* request r concerns user u
OnUser(r, u) ==
    IF r.kind \in {"updateUserRole", "deleteUser"} THEN r.target = u
    ELSE IF r.kind \in {"register", "login"} THEN r.email = users[u].email
    ELSE IF r.kind = "refresh" THEN r.token.id = u
    ELSE r.auth.id = u

\* the entry user:{u} holds a field that differs from the row of u
Stale(u) ==
    LET e == getCachedUserData(userCache, u)
    IN  /\ e # NoToken
        /\ \E f \in DOMAIN e : e[f] # FullRow(u)[f]

\* C33: when an updateMe, updateUserRole or deleteUser of user u has answered
\* 200 and no request that concerns u is in flight, the entry user:{u} is
\* absent or holds, field by field, what the row of u holds now.
C33_NoStaleEntryAfterMutation ==
    \A u \in UserIds :
        (/\ \E p \in Requests :
               /\ req[p].kind \in {"updateMe", "updateUserRole", "deleteUser"}
               /\ req[p].status = 200 /\ OnUser(req[p], u)
         /\ \A p \in InFlight : ~OnUser(req[p], u))
        => ~Stale(u)

\* C33 divergence: a getMe and an updateMe of the same user overlapped and
\* both answered 200; no login ran; the entry getMe wrote holds the first
\* name the update replaced
C33_GetMeFillOutlivesInvalidate ==
    \E p, q \in Requests :
        /\ \A x \in Requests : req[x].kind \in {"register", "getMe", "updateMe"}
        /\ InFlight = {}
        /\ req[p].kind = "getMe" /\ req[p].status = 200 /\ req[p].rows = 1
        /\ req[q].kind = "updateMe" /\ req[q].status = 200
        /\ req[q].auth.id = req[p].auth.id
        /\ Stale(req[p].auth.id)
        /\ getCachedUserData(userCache, req[p].auth.id) = req[p].data
        /\ req[p].data.first_name # users[req[p].auth.id].first_name

\* the pairs of finished register calls that named the same email, which no
\* other request names, in neither of which a call failed for a reason other
\* than the email being taken
SameEmailPairs ==
    {pq \in Requests \X Requests :
        LET a == req[pq[1]]
            b == req[pq[2]]
        IN  /\ pq[1] # pq[2]
            /\ a.kind = "register" /\ b.kind = "register" /\ a.email = b.email
            /\ \A x \in Requests \ {pq[1], pq[2]} : req[x].email # a.email
            /\ a.pc = "done" /\ b.pc = "done"
            /\ ~a.unhandled /\ ~b.unhandled
            /\ a.fault => a.error = "unique_violation"
            /\ b.fault => b.error = "unique_violation"}

\* C34: of two register calls with the same email, whatever the order of
\* their steps, one creates the single row of that email and answers 201
\* with tokens, and the other answers 409 USER_EXISTS and has written no
\* refresh record and no session row.
C34_RacingRegisterAnswersUserExists ==
    \A pq \in SameEmailPairs :
        LET a == req[pq[1]]
            b == req[pq[2]]
        IN  /\ Cardinality(RowByEmail(a.email)) = 1
            /\ a.status = 201 \/ b.status = 201
            /\ a.status = 201
                 => /\ a.refresh_token # NoToken
                    /\ b.status = 409 /\ b.code = "USER_EXISTS"
                    /\ b.refreshToken = NoToken /\ b.refresh_token = NoToken
                    /\ \A i \in DOMAIN sessions :
                          sessions[i].user_id \in RowByEmail(a.email)
                          => sessions[i].token_hash = generateTokenHash(a.refresh_token)

\* C34 divergence: both calls found no row, one inserted and answered 201,
\* the INSERT of the other hit the UNIQUE constraint and it answered 500
\* REGISTRATION_FAILED
C34_LoserAnswers500 ==
    \E pq \in SameEmailPairs :
        LET a == req[pq[1]]
            b == req[pq[2]]
        IN  /\ a.status = 201 /\ a.rows = 0 /\ b.rows = 0
            /\ b.status = 500 /\ b.code = "REGISTRATION_FAILED"
            /\ b.error = "unique_violation"
            /\ b.refreshToken = NoToken
            /\ Cardinality(RowByEmail(a.email)) = 1 /\ Len(sessions) = 1

\* the refresh records for which the session table has no row of the same
\* user and the same token hash
Orphans ==
    {r \in refreshStore :
        ~\E k \in 1..Len(sessions) :
            /\ sessions[k].user_id = r.key[1]
            /\ sessions[k].token_hash = generateTokenHash(r.value)}

\* C35: whenever no register and no login is in flight, every record of the
\* refresh store has a session row of the same user and the same token hash;
\* a register or login that ended in an error has left no record behind.
C35_EveryRecordHasSession ==
    (\A p \in InFlight : req[p].kind \notin {"register", "login"}) => Orphans = {}

\* C35 divergence: nothing is in flight; a register or login whose session
\* insert threw answered 500, and the record it wrote before is still in the
\* store, unexpired, with no session row
C35_FailedFlowLeavesRecord ==
    \E p \in Requests :
        /\ InFlight = {}
        /\ req[p].kind \in {"register", "login"} /\ req[p].fault
        /\ req[p].status = 500 /\ req[p].refresh_token = NoToken
        /\ \E r \in Orphans :
              /\ r.key = RefreshKey(req[p].user.id, req[p].refreshToken)
              /\ r.value = req[p].refreshToken
              /\ isRefreshTokenValid(refreshStore, req[p].user.id, req[p].refreshToken)
              /\ verifyRefreshToken(r.value, now)

\* the register and login calls that answered with tokens
Issuances ==
    {p \in Requests : /\ req[p].kind \in {"register", "login"}
                       /\ req[p].status \in {200, 201}
                       /\ req[p].refresh_token # NoToken}

\* C36: two register or login calls that answered with tokens for the same
\* user answered with different refresh token strings, stored under different
\* keys, also when both were signed in the same second; so a logout that
\* names the refresh token of one of them leaves the other's valid.
C36_IssuancesAreDistinct ==
    \A p, q \in Issuances :
        (p # q /\ req[p].user.id = req[q].user.id)
        => /\ req[p].refresh_token # req[q].refresh_token
           /\ RefreshKey(req[p].user.id, req[p].refresh_token)
                 # RefreshKey(req[q].user.id, req[q].refresh_token)

\* C36 divergence: a register and a login of the same user were signed in the
\* same second and answered with the same refresh token string; a logout that
\* named the register's token was answered 200, and the login's token, not
\* expired, is no longer valid
C36_LogoutOfOneRevokesOther ==
    \E p, q \in Issuances, l \in Requests :
        /\ p # q /\ req[p].user.id = req[q].user.id
        /\ req[p].refresh_token.iat = req[q].refresh_token.iat
        /\ req[p].refresh_token = req[q].refresh_token
        /\ req[l].kind = "logout" /\ req[l].status = 200 /\ ~req[l].all_devices
        /\ req[l].token = req[p].refresh_token
        /\ req[l].auth = req[p].access_token
        /\ verifyRefreshToken(req[q].refresh_token, now)
        /\ ~isRefreshTokenValid(refreshStore, req[q].user.id, req[q].refresh_token)

\* C37: in every reachable state, an entry user:{u} that is present is the
\* record getMe reads for u from the users table, so that getMe answers with
\* the same fields from the cache as from the table, whether getMe or login
\* wrote the entry.
C37_EntryIsTheRow ==
    \A u \in UserIds :
        getCachedUserData(userCache, u) # NoToken
        => getCachedUserData(userCache, u) = FullRow(u)

\* C37 divergence: a getMe was served the entry a login had written; what it
\* answered agrees with the row in the fields it has, but has no last_login
\* and no is_active, which getMe's own SELECT returns
C37_GetMeServesLoginProjection ==
    \E l, g \in Requests :
        /\ req[l].kind = "login" /\ req[l].status = 200
        /\ req[g].kind = "getMe" /\ req[g].status = 200
        /\ req[g].auth.id = req[l].user.id
        /\ req[g].cached # NoToken /\ req[g].rows = -1
        /\ req[g].data = LoginProjection(req[l].user)
        /\ \A f \in DOMAIN req[g].data : req[g].data[f] = FullRow(req[g].auth.id)[f]
        /\ DOMAIN req[g].data # DOMAIN FullRow(req[g].auth.id)
        /\ {"last_login", "is_active"} \cap DOMAIN req[g].data = {}

\* C38: a login answered 401 INVALID_CREDENTIALS or 403 ACCOUNT_DISABLED was
\* answered by the step that read the row, and neither that step nor the one
\* before it changed a user row (last_login included), the refresh store, the
\* session table or the user cache; the login signed no token.
C38_RejectedLoginChangesNothing ==
    [][\A p \in Requests :
          (req'[p] # req[p] /\ req'[p].kind = "login")
          => /\ req[p].pc \in {"idle", "login_select"}
                  => UNCHANGED <<users, sessions, refreshStore, userCache>>
             /\ req'[p].status \in {401, 403}
                  => /\ req[p].pc = "login_select" /\ req'[p].pc = "done"
                     /\ req'[p].code \in {"INVALID_CREDENTIALS", "ACCOUNT_DISABLED"}
                     /\ req'[p].accessToken = NoToken
                     /\ req'[p].refreshToken = NoToken
                     /\ ~req'[p].fault]_vars

\* C38 witness: a login with the right password for a deactivated user was
\* answered 403; the row has no last_login, and the refresh store and the
\* session table hold what the registration left
C38_Witness ==
    \E d, l \in Requests :
        /\ req[d].kind = "deleteUser" /\ req[d].status = 200
        /\ req[l].kind = "login" /\ req[l].status = 403
        /\ req[l].user.id = req[d].target
        /\ bcryptCompare(req[l].password, req[l].user.password_hash)
        /\ users[req[l].user.id].last_login = -1
        /\ Len(sessions) = 1 /\ Cardinality(refreshStore) = 1
        /\ getCachedUserData(userCache, req[l].user.id) = NoToken

\* C39: a step of an updateMe request adds no row, leaves every column outside
\* the profile whitelist (role, is_active, email, password_hash, last_login) of
\* every row as it was, and leaves every row other than the one whose id is the
\* caller's authenticated id untouched; the key set the statement is built
\* from is the body's, cut down to the keys of the schema.
C39_UpdateMeWritesOnlyOwnProfile ==
    [][\A p \in Requests :
          (req'[p] # req[p] /\ req'[p].kind = "updateMe")
          => /\ Len(users') = Len(users)
             /\ \A u \in UserIds :
                   /\ \A f \in DOMAIN users[u] \ updateProfile :
                         users'[u][f] = users[u][f]
                   /\ u # req'[p].auth.id => users'[u] = users[u]
             /\ req'[p].validatedBody
                   = {kv \in req'[p].validatedBody : kv[1] \in updateProfile}
             /\ req'[p].validatedBody \subseteq req'[p].body]_vars

\* C39 witness: a client sent a first name together with role admin, was
\* answered 200 with the new first name, and is still a client; the row of
\* the administrator is as the registration left it
C39_Witness ==
    \E p \in Requests :
        /\ req[p].kind = "updateMe" /\ req[p].status = 200
        /\ req[p].body = {<<"first_name", "Bob">>, <<"role", "admin">>}
        /\ req[p].validatedBody = {<<"first_name", "Bob">>}
        /\ req[p].auth.id = 2
        /\ users[2].role = "client" /\ users[2].first_name = "Bob"
        /\ users[2].is_active
        /\ users[1].role = "admin" /\ users[1].first_name # "Bob"

====
